---- MODULE Spec2Model ----
(***************************************************************************)
(* Model of @devozaar/feedback-core: the call-coalescing scheduler         *)
(* (core/debouncer.ts), the retry executor (core/retry.ts), the plugin     *)
(* pipeline (core/pipeline.ts) and the collector (core/collector.ts).      *)
(***************************************************************************)
EXTENDS Integers, Sequences, FiniteSets, TLC

\* ------------------------------------------------------------------ bounds
\* Number of Debouncer.call() invocations explored.
MaxCalls == 3
\* Last instant up to which the clock advances while no timer is armed and
\* calls are still to come (an armed timer always lets time reach its due instant).
MaxTime == 1
\* Largest options.attempts of withRetry explored.
MaxAttempts == 3

\* The absent value: null / undefined.
Null == <<>>

\* ------------------------------------------------------------ input domains
\* The argument list of the id-th call(): every call passes a distinct
\* argument, so the argument an execution ran with names the call it came from.
ArgsOf(id) == <<id>>
\* options.wait
WaitChoices == {2}
\* options.maxWait: undefined or a number of milliseconds
MaxWaitChoices == {Null, <<1>>, <<3>>}
\* What one invocation of the wrapped function does: return a plain value,
\* throw synchronously, or return a Promise that settles later.
FnBehaviours == {"value", "throw", "promise"}

VARIABLES
    options,            \* DebouncerOptions: wait, maxWait, leading
    now,                \* the event loop's clock
    timeoutId,          \* Null or <<due time>> of the quiet-period timer
    maxWaitTimeoutId,   \* Null or <<due time>> of the deadline timer
    lastArgs,           \* Null or <<argument>>
    leadingExecuted,
    pendingPromises,    \* sequence of call ids whose promise is queued
    calls,              \* history: call id -> [t, args]
    promises,           \* call id -> state of the promise call() returned
    execs,              \* history: invocations of the wrapped function
    rOptions,           \* RetryOptions: attempts, baseDelay, maxDelay, backoff, retryOn, onRetry
    rPc,                \* where withRetry is: "start", "fn", "onRetry", "sleep", "returned", "threw"
    attempt,            \* the loop counter
    lastError,          \* Null or <<Error>>
    delay,              \* the delay last computed
    rOutcome,           \* Null, or what withRetry returned / threw
    fnLog,              \* history: per invocation of fn, "running", "ok" or the value thrown
    onRetryLog,         \* history: the onRetry(attempt, error, delay) calls
    sleepLog,           \* history: the sleep(delay) calls
    config,             \* the collector: CollectorConfig and what was registered on it
    runs,               \* the executeCollection() invocations, each with its history
    stages,             \* the runHandlers() invocations and their handler calls
    idCount,            \* how many ids generateId() has issued
    useLog,             \* history: the use(plugin) calls and how each ended
    maxItems,           \* MemoryHandler.maxItems
    items,              \* MemoryHandler._items
    handled             \* history: the items handled since construction or clear()

debVars == <<options, now, timeoutId, maxWaitTimeoutId, lastArgs,
             leadingExecuted, pendingPromises, calls, promises, execs>>

retryVars == <<rOptions, rPc, attempt, lastError, delay, rOutcome, fnLog, onRetryLog, sleepLog>>

memVars == <<maxItems, items, handled>>

colVars == <<config, runs, stages, idCount, useLog, memVars>>

vars == <<debVars, retryVars, colVars>>

\* ------------------------------------------------------------- promise values
PendingPromise == [state |-> "pending", value |-> Null]
\* The value the wrapped function's e-th invocation returns / the error it raises.
FnResult(e) == <<"result", e>>
FnError(e) == <<"error", e>>
\* new Error('Debounced call cancelled')
CancelError == <<"Debounced call cancelled">>

Resolved(v) == [state |-> "resolved", value |-> v]
Rejected(v) == [state |-> "rejected", value |-> v]

\* Mutant of SettleAll: only the first waiter of the batch is settled.
SettleAll_FirstOnly(table, waiters, outcome) ==
    [c \in DOMAIN table |->
        IF waiters # <<>> /\ waiters[1] = c /\ table[c].state = "pending"
        THEN outcome ELSE table[c]]

\* for (const { resolve } of promises) resolve(value): settling a settled
\* promise again has no effect.
SettleAll(table, waiters, outcome) ==
    [c \in DOMAIN table |->
        IF (\E i \in DOMAIN waiters : waiters[i] = c) /\ table[c].state = "pending"
        THEN outcome ELSE table[c]]

\* ------------------------------------------------------------------ Debouncer
DebInit ==
    /\ options \in [wait : WaitChoices, maxWait : MaxWaitChoices, leading : BOOLEAN]
    /\ now = 0
    /\ timeoutId = Null
    /\ maxWaitTimeoutId = Null
    /\ lastArgs = Null
    /\ leadingExecuted = FALSE
    /\ pendingPromises = <<>>
    /\ calls = <<>>
    /\ promises = <<>>
    /\ execs = <<>>

\* A debouncer that is never used.
DebIdle ==
    /\ options = [wait |-> 1, maxWait |-> Null, leading |-> FALSE]
    /\ now = 0
    /\ timeoutId = Null
    /\ maxWaitTimeoutId = Null
    /\ lastArgs = Null
    /\ leadingExecuted = FALSE
    /\ pendingPromises = <<>>
    /\ calls = <<>>
    /\ promises = <<>>
    /\ execs = <<>>

\* clearTimeouts(): both timers are cancelled.
ClearedTimeout == Null

\* Mutant of Execute: clearTimeouts() leaves the deadline timer armed.
Execute_LeavesDeadline(args, waiters, table, cause, fn) ==
    /\ timeoutId' = ClearedTimeout
    /\ maxWaitTimeoutId' = maxWaitTimeoutId
    /\ lastArgs' = Null
    /\ pendingPromises' = <<>>
    /\ leadingExecuted' = FALSE
    /\ IF args = Null
       THEN /\ execs' = execs
            /\ promises' = table
       ELSE LET e == Len(execs) + 1
                outcome == CASE fn = "value" -> "value"
                             [] fn = "throw" -> "error"
                             [] OTHER -> "inflight"
            IN /\ execs' = Append(execs, [args |-> args,
                                          waiters |-> waiters, cause |-> cause,
                                          outcome |-> outcome])
               /\ promises' = CASE fn = "value" -> SettleAll(table, waiters, Resolved(FnResult(e)))
                                [] fn = "throw" -> SettleAll(table, waiters, Rejected(FnError(e)))
                                [] OTHER -> table

\* execute(), entered with lastArgs = args and pendingPromises = waiters, the
\* promise table being `table`; `cause` names the caller (history only) and
\* `fn` is what the wrapped function does in this invocation.
Execute(args, waiters, table, cause, fn) ==
    /\ timeoutId' = ClearedTimeout
    /\ maxWaitTimeoutId' = ClearedTimeout
    /\ lastArgs' = Null
    /\ pendingPromises' = <<>>
    /\ leadingExecuted' = FALSE
    /\ IF args = Null
       THEN /\ execs' = execs
            /\ promises' = table
       ELSE LET e == Len(execs) + 1
                outcome == CASE fn = "value" -> "value"
                             [] fn = "throw" -> "error"
                             [] OTHER -> "inflight"
            IN /\ execs' = Append(execs, [args |-> args,
                                          waiters |-> waiters, cause |-> cause,
                                          outcome |-> outcome])
               /\ promises' = CASE fn = "value" -> SettleAll(table, waiters, Resolved(FnResult(e)))
                                [] fn = "throw" -> SettleAll(table, waiters, Rejected(FnError(e)))
                                [] OTHER -> table

\* get pending(): this.lastArgs !== null
Pending == lastArgs # Null

\* The guard of the leading-edge branch of call().
LeadingEdge == options.leading /\ ~leadingExecuted

\* Mutant of ArmMaxWait: every call arms the deadline timer afresh.
ArmMaxWait_Rearmed ==
    IF options.maxWait # Null
    THEN <<now + options.maxWait[1]>>
    ELSE maxWaitTimeoutId

\* The deadline timer after a trailing call().
ArmMaxWait ==
    IF options.maxWait # Null /\ maxWaitTimeoutId = Null
    THEN <<now + options.maxWait[1]>>
    ELSE maxWaitTimeoutId

\* Mutant of ArmTimeout: a running quiet-period timer is left as it is.
ArmTimeout_KeepsFirst ==
    IF timeoutId # Null THEN timeoutId ELSE <<now + options.wait>>

\* The quiet-period timer after a trailing call().
ArmTimeout == <<now + options.wait>>

\* call(...args)
Call ==
    /\ UNCHANGED retryVars
    /\ Len(calls) < MaxCalls
    /\ LET id == Len(calls) + 1
           table == Append(promises, PendingPromise)
           waiters == Append(pendingPromises, id)
       IN /\ calls' = Append(calls, [t |-> now, args |-> ArgsOf(id)])
          /\ IF LeadingEdge
             THEN \E fn \in FnBehaviours : Execute(ArgsOf(id), waiters, table, "leading", fn)
             ELSE /\ lastArgs' = ArgsOf(id)
                  /\ pendingPromises' = waiters
                  /\ promises' = table
                  /\ timeoutId' = ArmTimeout
                  /\ maxWaitTimeoutId' = ArmMaxWait
                  /\ UNCHANGED <<leadingExecuted, execs>>
    /\ UNCHANGED <<options, now>>

\* Mutant of Flush: the batch is executed but the timers are left armed.
Flush_LeavesTimers ==
    /\ UNCHANGED retryVars
    /\ lastArgs # Null
    /\ \E fn \in FnBehaviours :
        LET e == Len(execs) + 1 IN
        /\ execs' = Append(execs, [args |-> lastArgs,
                                   waiters |-> pendingPromises, cause |-> "flush",
                                   outcome |-> CASE fn = "value" -> "value"
                                                 [] fn = "throw" -> "error"
                                                 [] OTHER -> "inflight"])
        /\ promises' = CASE fn = "value" -> SettleAll(promises, pendingPromises, Resolved(FnResult(e)))
                         [] fn = "throw" -> SettleAll(promises, pendingPromises, Rejected(FnError(e)))
                         [] OTHER -> promises
    /\ lastArgs' = Null
    /\ pendingPromises' = <<>>
    /\ leadingExecuted' = FALSE
    /\ UNCHANGED <<options, now, calls, timeoutId, maxWaitTimeoutId>>

\* flush()
Flush ==
    /\ UNCHANGED retryVars
    /\ IF lastArgs # Null
       THEN \E fn \in FnBehaviours : Execute(lastArgs, pendingPromises, promises, "flush", fn)
       ELSE UNCHANGED <<timeoutId, maxWaitTimeoutId, lastArgs, leadingExecuted,
                        pendingPromises, promises, execs>>
    /\ UNCHANGED <<options, now, calls>>

\* Mutant of Cancel: every unsettled promise is rejected, those of a batch
\* whose execution is in flight included.
Cancel_RejectsInFlight ==
    /\ UNCHANGED retryVars
    /\ timeoutId' = ClearedTimeout
    /\ maxWaitTimeoutId' = ClearedTimeout
    /\ lastArgs' = Null
    /\ leadingExecuted' = FALSE
    /\ promises' = [c \in DOMAIN promises |->
                        IF promises[c].state = "pending"
                        THEN Rejected(CancelError) ELSE promises[c]]
    /\ pendingPromises' = <<>>
    /\ UNCHANGED <<options, now, calls, execs>>

\* Mutant of Cancel: the queue is emptied without rejecting its promises.
Cancel_ForgetsWaiters ==
    /\ UNCHANGED retryVars
    /\ timeoutId' = ClearedTimeout
    /\ maxWaitTimeoutId' = ClearedTimeout
    /\ lastArgs' = Null
    /\ leadingExecuted' = FALSE
    /\ pendingPromises' = <<>>
    /\ UNCHANGED <<options, now, calls, execs, promises>>

\* Mutant of Cancel: the waiters are rejected but the timers keep running.
Cancel_KeepsTimers ==
    /\ UNCHANGED retryVars
    /\ lastArgs' = Null
    /\ leadingExecuted' = FALSE
    /\ promises' = SettleAll(promises, pendingPromises, Rejected(CancelError))
    /\ pendingPromises' = <<>>
    /\ UNCHANGED <<options, now, calls, execs, timeoutId, maxWaitTimeoutId>>

\* cancel()
Cancel ==
    /\ UNCHANGED retryVars
    /\ timeoutId' = ClearedTimeout
    /\ maxWaitTimeoutId' = ClearedTimeout
    /\ lastArgs' = Null
    /\ leadingExecuted' = FALSE
    /\ promises' = SettleAll(promises, pendingPromises, Rejected(CancelError))
    /\ pendingPromises' = <<>>
    /\ UNCHANGED <<options, now, calls, execs>>

\* The quiet-period timer set by call() fires.
TimeoutFires ==
    /\ UNCHANGED retryVars
    /\ timeoutId # Null
    /\ timeoutId[1] <= now
    /\ \E fn \in FnBehaviours : Execute(lastArgs, pendingPromises, promises, "timeout", fn)
    /\ UNCHANGED <<options, now, calls>>

\* The deadline timer set by call() fires.
MaxWaitFires ==
    /\ UNCHANGED retryVars
    /\ maxWaitTimeoutId # Null
    /\ maxWaitTimeoutId[1] <= now
    /\ \E fn \in FnBehaviours : Execute(lastArgs, pendingPromises, promises, "maxWait", fn)
    /\ UNCHANGED <<options, now, calls>>

\* The Promise returned by the wrapped function's e-th invocation settles:
\* the .then / .catch callbacks of execute() run.
FnSettles(e, ok) ==
    /\ UNCHANGED retryVars
    /\ e \in DOMAIN execs
    /\ execs[e].outcome = "inflight"
    /\ execs' = [execs EXCEPT ![e].outcome = IF ok THEN "value" ELSE "error"]
    /\ promises' = SettleAll(promises, execs[e].waiters,
                             IF ok THEN Resolved(FnResult(e)) ELSE Rejected(FnError(e)))
    /\ UNCHANGED <<options, now, timeoutId, maxWaitTimeoutId, lastArgs,
                   leadingExecuted, pendingPromises, calls>>

TimerDue ==
    \/ (timeoutId # Null /\ timeoutId[1] <= now)
    \/ (maxWaitTimeoutId # Null /\ maxWaitTimeoutId[1] <= now)

TimerArmed == timeoutId # Null \/ maxWaitTimeoutId # Null

\* Time passes; a due timer runs before the clock moves on.
Tick ==
    /\ UNCHANGED retryVars
    /\ ~TimerDue
    /\ (now < MaxTime /\ Len(calls) < MaxCalls) \/ TimerArmed
    /\ now' = now + 1
    /\ UNCHANGED <<options, timeoutId, maxWaitTimeoutId, lastArgs, leadingExecuted,
                   pendingPromises, calls, promises, execs>>

\* The operations of a Debouncer that wraps a function of its own: no
\* collector is involved.
DebOnlyCall == Call /\ UNCHANGED colVars
DebOnlyFlush == Flush /\ UNCHANGED colVars
DebOnlyCancel == Cancel /\ UNCHANGED colVars
DebOnlyTimeoutFires == TimeoutFires /\ UNCHANGED colVars
DebOnlyMaxWaitFires == MaxWaitFires /\ UNCHANGED colVars
DebOnlyFnSettles(e, ok) == FnSettles(e, ok) /\ UNCHANGED colVars
DebOnlyTick == Tick /\ UNCHANGED colVars

DebNext ==
    \/ DebOnlyCall
    \/ DebOnlyFlush
    \/ DebOnlyCancel
    \/ DebOnlyTimeoutFires
    \/ DebOnlyMaxWaitFires
    \/ \E e \in 1..MaxCalls, ok \in BOOLEAN : DebOnlyFnSettles(e, ok)
    \/ DebOnlyTick

\* -------------------------------------------------------------- retry executor
\* Values the retried operation may throw: two Error instances (a retryable
\* network failure, a fatal one) and a value that is not an Error.
ThrownValues ==
    { [isError |-> TRUE,  msg |-> "network", origin |-> "fn"],
      [isError |-> TRUE,  msg |-> "fatal",   origin |-> "fn"],
      [isError |-> FALSE, msg |-> "fatal",   origin |-> "fn"] }

\* error instanceof Error ? error : new Error(String(error))
ToError(x) ==
    IF x.isError THEN x
    ELSE [isError |-> TRUE, msg |-> x.msg, origin |-> "withRetry"]

\* Mutant of RetryExhaustedError: the error is built although there is no last
\* error to read the message of.
RetryExhaustedError_NullSafe(n, last) ==
    IF last = Null
    THEN [name |-> "RetryExhaustedError", attempts |-> n, lastError |-> Null]
    ELSE [name |-> "RetryExhaustedError", attempts |-> n, lastError |-> last[1]]

\* Mutant of RetryExhaustedError: the count is that of the retries, not of the tries.
RetryExhaustedError_CountsRetries(n, last) ==
    IF last = Null
    THEN [name |-> "TypeError", origin |-> "RetryExhaustedError"]
    ELSE [name |-> "RetryExhaustedError", attempts |-> n - 1, lastError |-> last[1]]

\* new RetryExhaustedError(attempts, lastError); reading lastError.message of
\* a null lastError raises a TypeError instead.
RetryExhaustedError(n, last) ==
    IF last = Null
    THEN [name |-> "TypeError", origin |-> "RetryExhaustedError"]
    ELSE [name |-> "RetryExhaustedError", attempts |-> n, lastError |-> last[1]]

\* options.retryOn: absent, or the README's predicate that accepts network errors.
RetryOnChoices == {Null, <<{"network"}>>}
RetryOnAccepts(err) == err.msg \in rOptions.retryOn[1]

\* Math.random(), a rational <<numerator, denominator>> in [0, 1).
RandomChoices == {<<0, 1>>, <<1, 2>>, <<9, 10>>}

\* 2 ^ n
RECURSIVE Pow2(_)
Pow2(n) == IF n <= 0 THEN 1 ELSE 2 * Pow2(n - 1)

\* The policy delay of calculateDelay, before jitter.
PolicyDelay(attempt_, baseDelay, backoff) ==
    CASE backoff = "exponential" -> baseDelay * Pow2(attempt_ - 1)
      [] backoff = "linear" -> baseDelay * attempt_
      [] OTHER -> baseDelay

\* Math.round(p / q) for q > 0: the nearest integer, halves towards +infinity.
RoundRatio(p, q) == (2 * p + q) \div (2 * q)

\* Mutant of CalculateDelay: the policy delay is capped first and the jitter
\* is applied to the capped delay.
CalculateDelay_CapsFirst(attempt_, baseDelay, maxDelay, backoff, rnd) ==
    LET d == PolicyDelay(attempt_, baseDelay, backoff)
        c == IF d > maxDelay THEN maxDelay ELSE d
    IN RoundRatio(c * (9 * rnd[2] + 2 * rnd[1]), 10 * rnd[2])

\* Mutant of CalculateDelay: the jittered delay is rounded but not capped.
CalculateDelay_NoCap(attempt_, baseDelay, maxDelay, backoff, rnd) ==
    LET d == PolicyDelay(attempt_, baseDelay, backoff)
    IN RoundRatio(d * (9 * rnd[2] + 2 * rnd[1]), 10 * rnd[2])

\* calculateDelay(attempt, baseDelay, maxDelay, backoff) with Math.random() = rnd:
\* jitter = delay * 0.1 * (rnd * 2 - 1); Math.round(Math.min(delay + jitter, maxDelay))
CalculateDelay(attempt_, baseDelay, maxDelay, backoff, rnd) ==
    LET d == PolicyDelay(attempt_, baseDelay, backoff)
        \* delay + jitter = p / q
        p == d * (9 * rnd[2] + 2 * rnd[1])
        q == 10 * rnd[2]
    IN IF p > maxDelay * q THEN maxDelay ELSE RoundRatio(p, q)

\* maxDelay = 30000 when the options leave it out
DefaultMaxDelay == 30000

\* What an onRetry observer throws when it fails.
HookError == [isError |-> TRUE, msg |-> "hook failed", origin |-> "onRetry"]

\* withRetry has not been called.
RetryIdle(opts) ==
    /\ rOptions = opts
    /\ rPc = "start"
    /\ attempt = 0
    /\ lastError = Null
    /\ delay = 0
    /\ rOutcome = Null
    /\ fnLog = <<>>
    /\ onRetryLog = <<>>
    /\ sleepLog = <<>>

\* options.attempts is a number: a negative one, none, or up to MaxAttempts.
AttemptsChoices == {0 - 1} \cup (0..MaxAttempts)

RetryInit ==
    \E opts \in [attempts : AttemptsChoices,
                 baseDelay : {16, 100},
                 maxDelay : {90, 150, 10000, DefaultMaxDelay},
                 backoff : {"fixed", "linear", "exponential"},
                 retryOn : RetryOnChoices,
                 onRetry : BOOLEAN] : RetryIdle(opts)

\* The options of a collector without retry: withRetry is never called.
NoRetry == [attempts |-> 0, baseDelay |-> 0, maxDelay |-> DefaultMaxDelay,
            backoff |-> "fixed", retryOn |-> Null, onRetry |-> FALSE]

Returned(v) == [kind |-> "return", value |-> v]
Threw(err) == [kind |-> "throw", error |-> err]

\* The loop condition attempt <= attempts.
LoopCondition(n) == n <= rOptions.attempts

\* The loop is (re-)entered with attempt = n: fn() is invoked if the loop
\* condition holds, otherwise the code after the loop throws.
LoopEnter(n, last) ==
    /\ attempt' = n
    /\ IF LoopCondition(n)
       THEN /\ rPc' = "fn"
            /\ fnLog' = Append(fnLog, [state |-> "running", thrown |-> Null])
            /\ rOutcome' = rOutcome
       ELSE /\ rPc' = "threw"
            /\ fnLog' = fnLog
            /\ rOutcome' = Threw(RetryExhaustedError(rOptions.attempts, last))

\* withRetry(fn, options) is called.
RetryStart ==
    /\ UNCHANGED debVars
    /\ rPc = "start"
    /\ LoopEnter(1, lastError)
    /\ UNCHANGED <<rOptions, lastError, delay, onRetryLog, sleepLog>>

\* Mutant of FnReturns: the result is awaited but not returned, and the loop
\* goes round.
FnReturns_NoReturn ==
    /\ UNCHANGED debVars
    /\ rPc = "fn"
    /\ attempt' = attempt + 1
    /\ IF LoopCondition(attempt + 1)
       THEN /\ rPc' = "fn"
            /\ fnLog' = Append([fnLog EXCEPT ![Len(fnLog)].state = "ok"],
                               [state |-> "running", thrown |-> Null])
            /\ rOutcome' = rOutcome
       ELSE /\ rPc' = "threw"
            /\ fnLog' = [fnLog EXCEPT ![Len(fnLog)].state = "ok"]
            /\ rOutcome' = Threw(RetryExhaustedError(rOptions.attempts, lastError))
    /\ UNCHANGED <<rOptions, lastError, delay, onRetryLog, sleepLog>>

\* return await fn(): fn's promise resolves.
FnReturns ==
    /\ UNCHANGED debVars
    /\ rPc = "fn"
    /\ fnLog' = [fnLog EXCEPT ![Len(fnLog)].state = "ok"]
    /\ rPc' = "returned"
    /\ rOutcome' = Returned(<<"result", Len(fnLog)>>)
    /\ UNCHANGED <<rOptions, attempt, lastError, delay, onRetryLog, sleepLog>>

\* Mutant of Vetoed: retryOn is never consulted.
Vetoed_Ignored(err) == FALSE

\* if (retryOn && !retryOn(lastError)) throw lastError
Vetoed(err) == rOptions.retryOn # Null /\ ~RetryOnAccepts(err)

\* if (attempt >= attempts) break
LastAttempt == attempt >= rOptions.attempts

\* The catch block: fn threw or its promise rejected with x.
FnThrows(x) ==
    /\ UNCHANGED debVars
    /\ rPc = "fn"
    /\ fnLog' = [fnLog EXCEPT ![Len(fnLog)] = [state |-> "threw", thrown |-> <<x>>]]
    /\ LET err == ToError(x)
       IN /\ lastError' = <<err>>
          /\ IF Vetoed(err)
             THEN /\ rPc' = "threw"
                  /\ rOutcome' = Threw(err)
                  /\ UNCHANGED <<delay, onRetryLog, sleepLog>>
             ELSE IF LastAttempt
             THEN /\ rPc' = "threw"
                  /\ rOutcome' = Threw(RetryExhaustedError(rOptions.attempts, <<err>>))
                  /\ UNCHANGED <<delay, onRetryLog, sleepLog>>
             ELSE \E rnd \in RandomChoices :
                  LET d == CalculateDelay(attempt, rOptions.baseDelay,
                                          rOptions.maxDelay, rOptions.backoff, rnd)
                  IN /\ delay' = d
                     /\ rOutcome' = rOutcome
                     /\ IF rOptions.onRetry
                        THEN /\ rPc' = "onRetry"
                             /\ onRetryLog' = Append(onRetryLog,
                                    [attempt |-> attempt, error |-> err, delay |-> d])
                             /\ sleepLog' = sleepLog
                        ELSE /\ rPc' = "sleep"
                             /\ onRetryLog' = onRetryLog
                             /\ sleepLog' = Append(sleepLog, d)
    /\ UNCHANGED <<rOptions, attempt>>

\* await onRetry(...) completes: sleep(delay) starts.
OnRetryReturns ==
    /\ UNCHANGED debVars
    /\ rPc = "onRetry"
    /\ rPc' = "sleep"
    /\ sleepLog' = Append(sleepLog, delay)
    /\ UNCHANGED <<rOptions, attempt, lastError, delay, rOutcome, fnLog, onRetryLog>>

\* Mutant of OnRetryThrows: what onRetry throws is replaced by the
\* RetryExhaustedError of the attempts made.
OnRetryThrows_Exhausted ==
    /\ UNCHANGED debVars
    /\ rPc = "onRetry"
    /\ rPc' = "threw"
    /\ rOutcome' = Threw(RetryExhaustedError(attempt, lastError))
    /\ UNCHANGED <<rOptions, attempt, lastError, delay, fnLog, onRetryLog, sleepLog>>

\* await onRetry(...) throws inside the catch block: the error leaves withRetry.
OnRetryThrows ==
    /\ UNCHANGED debVars
    /\ rPc = "onRetry"
    /\ rPc' = "threw"
    /\ rOutcome' = Threw(HookError)
    /\ UNCHANGED <<rOptions, attempt, lastError, delay, fnLog, onRetryLog, sleepLog>>

\* await sleep(delay) completes: attempt++ and the loop goes round.
SleepElapses ==
    /\ UNCHANGED debVars
    /\ rPc = "sleep"
    /\ LoopEnter(attempt + 1, lastError)
    /\ UNCHANGED <<rOptions, lastError, delay, onRetryLog, sleepLog>>

\* The steps of a withRetry() call made on a function of the caller's own:
\* no collector is involved.
RetryOnlyStart == RetryStart /\ UNCHANGED colVars
RetryOnlyFnReturns == FnReturns /\ UNCHANGED colVars
RetryOnlyFnThrows(x) == FnThrows(x) /\ UNCHANGED colVars
RetryOnlyOnRetryReturns == OnRetryReturns /\ UNCHANGED colVars
RetryOnlyOnRetryThrows == OnRetryThrows /\ UNCHANGED colVars
RetryOnlySleepElapses == SleepElapses /\ UNCHANGED colVars

RetryNext ==
    \/ RetryOnlyStart
    \/ RetryOnlyFnReturns
    \/ \E x \in ThrownValues : RetryOnlyFnThrows(x)
    \/ RetryOnlyOnRetryReturns
    \/ RetryOnlyOnRetryThrows
    \/ RetryOnlySleepElapses

\* ------------------------------------------------------------ FeedbackCollector
\* config.type
FeedbackType == "nps"

\* The data passed to collect(): what matters of it is whether the configured
\* schema accepts it.
DataChoices == [schemaOk : BOOLEAN]

\* error instanceof Error: the library's errors are Error instances, a value
\* thrown by a plugin or a hook says which it is.
InstanceOfError(x) == IF "isError" \in DOMAIN x THEN x.isError ELSE TRUE
\* error instanceof cls, for a class of utils/errors.ts
InstanceOf(x, cls) == "name" \in DOMAIN x /\ x.name = cls

\* error instanceof Error ? error : new Error(String(error)), evaluated in `where`
NewErrorOf(x, where) ==
    IF InstanceOfError(x) THEN x
    ELSE [isError |-> TRUE, msg |-> x.msg, origin |-> where]

\* new ValidationError(errors)
ValidationError(errors) ==
    [isError |-> TRUE, name |-> "ValidationError", msg |-> "Validation failed",
     errors |-> errors]
\* new PluginError(pluginName, phase, originalError)
PluginError(pluginName, phase, originalError) ==
    [isError |-> TRUE, name |-> "PluginError", msg |-> "Plugin failed",
     pluginName |-> pluginName, phase |-> phase, cause |-> originalError]
\* new CollectionCancelledError('Cancelled by beforeCollect hook')
CollectionCancelledError ==
    [isError |-> TRUE, name |-> "CollectionCancelledError",
     msg |-> "Cancelled by beforeCollect hook"]

\* What a plugin or a hook throws when it fails: an Error or a value that is
\* not an Error.
ThrownBy(who) ==
    { [isError |-> TRUE, msg |-> "failed", origin |-> who],
      [isError |-> FALSE, msg |-> "failed", origin |-> who] }

\* The error messages a validator reports when it finds the data invalid.
ErrorsOf(name) ==
    IF name = "A" THEN << <<name, 1>>, <<name, 2>> >> ELSE << <<name, 1>> >>
\* A ValidationResult: valid with no errors, or invalid with its errors.
ValidResult == [valid |-> TRUE, errors |-> <<>>]
InvalidResult(name) == [valid |-> FALSE, errors |-> ErrorsOf(name)]
\* The ValidationResults a validator plugin can return: `valid` and `errors`
\* are two independent fields of the interface.
ResultsOf(name) == [valid : BOOLEAN, errors : {<<>>, ErrorsOf(name)}]
\* validateWithSchema(schema, data)
ValidateWithSchema(data) ==
    IF data.schemaOk THEN ValidResult ELSE InvalidResult("zod-validator")
\* What validator `name` may return for `data`: the validator made from the
\* schema returns the schema's verdict, any other validator any result.
ValidatorResults(name, data) ==
    IF name = "zod-validator" THEN {ValidateWithSchema(data)}
    ELSE ResultsOf(name)

\* What transformer `name` returns for an item: a new item that carries its mark.
Transformed(item, name) == [item EXCEPT !.marks = Append(@, name)]
\* A transformer may as well return an object of its own making: here one
\* with an id and a type of its own that keeps nothing of the marks so far.
Replaced(item, name) ==
    [id |-> 0, type |-> "rewritten", data |-> item.data, metadata |-> Null,
     timestamp |-> item.timestamp, marks |-> <<name>>]
\* The ways a transformer makes its result.
TransformerChoices == {"mark", "replace"}

\* Mutant of GetErrorPhase: the phase of a RetryExhaustedError is that of the
\* error it carries.
GetErrorPhase_LooksInside(error) ==
    IF InstanceOf(error, "ValidationError") THEN <<"validation">>
    ELSE IF InstanceOf(error, "PluginError")
    THEN CASE error.phase = "validate" -> <<"validation">>
           [] error.phase = "transform" -> <<"transform">>
           [] error.phase = "handle" -> <<"handler">>
           [] OTHER -> Null
    ELSE IF InstanceOf(error, "RetryExhaustedError") THEN <<"handler">>
    ELSE Null

\* Mutant of GetErrorPhase: the phase of a PluginError is passed on as it is.
GetErrorPhase_Raw(error) ==
    IF InstanceOf(error, "ValidationError") THEN <<"validation">>
    ELSE IF InstanceOf(error, "PluginError") THEN <<error.phase>>
    ELSE Null

\* getErrorPhase(error)
GetErrorPhase(error) ==
    IF InstanceOf(error, "ValidationError") THEN <<"validation">>
    ELSE IF InstanceOf(error, "PluginError")
    THEN CASE error.phase = "validate" -> <<"validation">>
           [] error.phase = "transform" -> <<"transform">>
           [] error.phase = "handle" -> <<"handler">>
           [] OTHER -> Null
    ELSE Null

\* An entry of a run's history: what was invoked, which one of its list, and
\* the argument it was given.
Event(ev, i_, arg) == [ev |-> ev, i |-> i_, arg |-> arg]

\* The awaited call of run `run` has come back: `ev` says how, `arg` with what.
Logged(run, ev, arg) == [run EXCEPT !.log = Append(@, Event(ev, run.i, arg))]

\* No collector exists.
ColIdle ==
    /\ config = Null
    /\ runs = <<>>
    /\ stages = <<>>
    /\ idCount = 0
    /\ useLog = <<>>
    /\ maxItems = 0
    /\ items = <<>>
    /\ handled = <<>>

\* executeCollection leaves: return item / throw error.
Finish(run, outcome_) == [run EXCEPT !.pc = "done", !.i = 0, !.outcome = outcome_]

\* Mutant of ErrorHooksFrom: only the first error hook is invoked.
ErrorHooksFrom_OnlyFirst(run, i_) ==
    IF i_ <= config.error /\ i_ <= 1
    THEN [run EXCEPT !.pc = "error", !.i = i_,
                     !.log = Append(@, Event("error", i_,
                                 [error |-> NewErrorOf(run.error[1], "executeCollection"),
                                  phase |-> GetErrorPhase(run.error[1])]))]
    ELSE Finish(run, Threw(run.error[1]))

\* The catch block from error hook i_ on: the hook is invoked with the error
\* and the phase and awaited; after the last one the error is thrown again.
ErrorHooksFrom(run, i_) ==
    IF i_ <= config.error
    THEN [run EXCEPT !.pc = "error", !.i = i_,
                     !.log = Append(@, Event("error", i_,
                                 [error |-> NewErrorOf(run.error[1], "executeCollection"),
                                  phase |-> GetErrorPhase(run.error[1])]))]
    ELSE Finish(run, Threw(run.error[1]))

\* catch (error): the try block of executeCollection threw err.
CatchError(run, err) == ErrorHooksFrom([run EXCEPT !.error = <<err>>], 1)

\* The after-collect hooks from hook i_ on, then return item.
AfterHooksFrom(run, i_) ==
    IF i_ <= config.afterCollect
    THEN [run EXCEPT !.pc = "afterCollect", !.i = i_,
                     !.log = Append(@, Event("afterCollect", i_, run.item[1]))]
    ELSE Finish(run, Returned(run.item[1]))

\* Mutant of HandlersFrom: the handler stage is left out and the after-collect
\* hooks follow the transformers at once.
HandlersFrom_NotAwaited(run) == AfterHooksFrom(run, 1)

\* if (this.plugins.handlers.length > 0) await this.runHandlersWithRetry(item)
HandlersFrom(run) ==
    IF Len(config.handlers) > 0
    THEN [run EXCEPT !.pc = "handlers", !.i = 0]
    ELSE AfterHooksFrom(run, 1)

\* runTransformers from transformer i_ on.
TransformersFrom(run, i_) ==
    IF i_ <= Len(config.transformers)
    THEN [run EXCEPT !.pc = "transform", !.i = i_,
                     !.log = Append(@, Event("transform", i_, run.item[1]))]
    ELSE HandlersFrom(run)

\* Mutant of CreateItem: the item gets a type of the library's own instead of
\* the configured one.
CreateItem_Untyped(run, id) ==
    TransformersFrom(
        [run EXCEPT !.item = << [id |-> id, type |-> "feedback", data |-> run.data,
                                 metadata |-> run.metadata,
                                 timestamp |-> run.timestamp, marks |-> <<>>] >>,
                    !.log = Append(@, Event("build", 0, id))], 1)

\* let item = { id: generateId(), type, data, metadata, timestamp }
CreateItem(run, id) ==
    TransformersFrom(
        [run EXCEPT !.item = << [id |-> id, type |-> config.type, data |-> run.data,
                                 metadata |-> run.metadata,
                                 timestamp |-> run.timestamp, marks |-> <<>>] >>,
                    !.log = Append(@, Event("build", 0, id))], 1)

\* if (!validationResult.valid) throw new ValidationError(validationResult.errors)
Validated(run, result, id) ==
    IF ~result.valid
    THEN CatchError(run, ValidationError(result.errors))
    ELSE CreateItem(run, id)

\* runValidators from validator i_ on; after the last one its result goes
\* back to executeCollection.
ValidatorsFrom(run, i_, id) ==
    IF i_ <= Len(config.validators)
    THEN [run EXCEPT !.pc = "validate", !.i = i_,
                     !.log = Append(@, Event("validate", i_, run.data))]
    ELSE LET result == [valid |-> run.allErrors = <<>>, errors |-> run.allErrors]
         IN Validated([run EXCEPT !.log = Append(@, Event("runValidators.returned", 0,
                                                          result))],
                      result, id)

\* Mutant of Validate: a failed schema check does not end validate(), the
\* validator plugins run on the data as well.
Validate_RunsPluginsAnyway(run, id) ==
    IF config.schema
    THEN LET checked == [run EXCEPT !.log = Append(@, Event("schema", 0, run.data))]
             schemaResult == ValidateWithSchema(run.data)
         IN ValidatorsFrom([checked EXCEPT !.allErrors = schemaResult.errors], 1, id)
    ELSE ValidatorsFrom(run, 1, id)

\* validate(data): the schema check, then the validator plugins.
Validate(run, id) ==
    IF config.schema
    THEN LET checked == [run EXCEPT !.log = Append(@, Event("schema", 0, run.data))]
             schemaResult == ValidateWithSchema(run.data)
         IN IF ~schemaResult.valid
            THEN Validated(checked, schemaResult, id)
            ELSE ValidatorsFrom(checked, 1, id)
    ELSE ValidatorsFrom(run, 1, id)

\* The before-collect hooks from hook i_ on, then validation.
BeforeHooksFrom(run, i_, id) ==
    IF i_ <= config.beforeCollect
    THEN [run EXCEPT !.pc = "beforeCollect", !.i = i_,
                     !.log = Append(@, Event("beforeCollect", i_,
                                 [type |-> config.type, data |-> run.data,
                                  metadata |-> run.metadata,
                                  timestamp |-> run.timestamp]))]
    ELSE Validate(run, id)

\* Mutant of MergedMetadata: on a key of both the default value wins.
MergedMetadata_DefaultsWin(defaults, metadata) ==
    [k \in DOMAIN defaults \cup DOMAIN metadata |->
        IF k \in DOMAIN defaults THEN defaults[k] ELSE metadata[k]]

\* { ...this.config.defaultMetadata, ...metadata }: an object is a function
\* from its keys, and spreading undefined adds no key.
MergedMetadata(defaults, metadata) ==
    [k \in DOMAIN defaults \cup DOMAIN metadata |->
        IF k \in DOMAIN metadata THEN metadata[k] ELSE defaults[k]]

\* executeCollection(data, metadata) is entered at time t.
Entered(data, metadata, t) ==
    [pc |-> "entered", i |-> 0, data |-> data, timestamp |-> t, allErrors |-> <<>>,
     callMetadata |-> metadata,
     metadata |-> MergedMetadata(config.defaultMetadata, metadata),
     hook |-> 0, retryCalls |-> <<>>,
     item |-> Null, error |-> Null, outcome |-> Null, stage |-> 0, log |-> <<>>]

\* How the handlers of one runHandlers() call start: each either is in
\* flight or has thrown synchronously.
HandlerStarts == [1..Len(config.handlers) -> {"inflight", "failed"}]

\* The first handler whose fault Promise.all has seen, if any.
FirstFault(calls_) ==
    IF \E h \in DOMAIN calls_ : calls_[h] = "failed"
    THEN << CHOOSE h \in DOMAIN calls_ :
                calls_[h] = "failed" /\ \A g \in 1..(h - 1) : calls_[g] # "failed" >>
    ELSE Null

\* Mutant of RunHandlers: a handler that completed in an earlier attempt of
\* the same execution is not invoked again.
RunHandlers_SkipsSucceeded(r, item, calls_) ==
    LET done == {h \in DOMAIN calls_ :
                    \E s \in DOMAIN stages : stages[s].run = r /\ stages[s].calls[h] = "ok"}
        made == [h \in DOMAIN calls_ |-> IF h \in done THEN "notStarted" ELSE calls_[h]]
    IN [run |-> r, item |-> item, calls |-> made, fault |-> FirstFault(made),
        started |-> SelectSeq(config.handlers, LAMBDA n : \E h \in DOMAIN made :
                                    config.handlers[h] = n /\ h \notin done),
        faults |-> SelectSeq([h \in DOMAIN calls_ |-> h], LAMBDA h : made[h] = "failed"),
        late |-> {}]

\* Mutant of RunHandlers: handlers run one after the other, so a handler that
\* throws keeps the later ones from starting.
RunHandlers_Sequential(r, item, calls_) ==
    LET reached == {h \in DOMAIN calls_ : \A g \in 1..(h - 1) : calls_[g] # "failed"}
    IN [run |-> r, item |-> item,
        calls |-> [h \in DOMAIN calls_ |->
                        IF h \in reached THEN calls_[h] ELSE "notStarted"],
        fault |-> FirstFault(calls_),
        started |-> SubSeq(config.handlers, 1, Cardinality(reached)),
        faults |-> SelectSeq([h \in DOMAIN calls_ |-> h],
                             LAMBDA h : h \in reached /\ calls_[h] = "failed"),
        late |-> {}]

\* runHandlers(handlers, item): Promise.all(handlers.map(runHandler)) invokes
\* every handler in registration order. `started` lists the handlers in the
\* order they were invoked, `faults` the handlers that failed in the order
\* their failures were seen, `late` the handlers that settled after the
\* collect they belong to was over.
RunHandlers(r, item, calls_) ==
    [run |-> r, item |-> item, calls |-> calls_, fault |-> FirstFault(calls_),
     started |-> config.handlers,
     faults |-> SelectSeq([h \in DOMAIN calls_ |-> h], LAMBDA h : calls_[h] = "failed"),
     late |-> {}]

\* Mutant of StartStage: each attempt is handed an item with an id of its own.
StartStage_NewItem(base, r, run, calls_) ==
    /\ stages' = Append(stages, RunHandlers(r, [run.item[1] EXCEPT !.id = @ + Len(stages)],
                                            calls_))
    /\ runs' = [base EXCEPT ![r] =
                    [run EXCEPT !.stage = Len(stages) + 1,
                                !.log = Append(@, Event("handle", Len(stages) + 1,
                                                        run.item[1]))]]

\* handlersToRun() is called for run r: a handler stage starts.
StartStage(base, r, run, calls_) ==
    /\ stages' = Append(stages, RunHandlers(r, run.item[1], calls_))
    /\ runs' = [base EXCEPT ![r] =
                    [run EXCEPT !.stage = Len(stages) + 1,
                                !.log = Append(@, Event("handle", Len(stages) + 1,
                                                        run.item[1]))]]

\* runHandlersWithRetry(item): withRetry(handlersToRun, ...) when retry is
\* configured, handlersToRun() otherwise.
RunHandlersWithRetry(base, r, run) ==
    IF config.retry = Null
    THEN /\ \E c \in HandlerStarts : StartStage(base, r, run, c)
         /\ UNCHANGED retryVars
    ELSE /\ RetryStart
         /\ IF rPc' = "fn"
            THEN \E c \in HandlerStarts : StartStage(base, r, run, c)
            ELSE /\ runs' = [base EXCEPT ![r] = run]
                 /\ UNCHANGED stages

\* Run r of `base` goes on until its next await and is then `run`.
Continue(base, r, run) ==
    /\ idCount' = IF run.item # Null /\ base[r].item = Null THEN idCount + 1 ELSE idCount
    /\ config' = config
    /\ UNCHANGED <<useLog, memVars>>
    /\ IF run.pc = "handlers" /\ base[r].pc # "handlers"
       THEN RunHandlersWithRetry(base, r, run)
       ELSE /\ runs' = [base EXCEPT ![r] = run]
            /\ UNCHANGED stages
            /\ UNCHANGED retryVars

\* Run r is suspended in the await of stage pc_.
Awaiting(r, pc_) == r \in DOMAIN runs /\ runs[r].pc = pc_

\* collect(data, metadata) on a collector without debounce: executeCollection runs up
\* to its first await.
Collect(data, metadata) ==
    /\ UNCHANGED debVars
    /\ config.debounce = Null
    /\ Len(runs) < config.collects
    /\ LET r == Len(runs) + 1
           base == Append(runs, Entered(data, metadata, now))
       IN Continue(base, r, BeforeHooksFrom(base[r], 1, idCount + 1))

\* Mutant of BeforeHookReturns: a hook's false is not taken as a cancellation.
BeforeHookReturns_IgnoresFalse(r, result) ==
    /\ UNCHANGED debVars
    /\ Awaiting(r, "beforeCollect")
    /\ LET run == Logged(runs[r], "beforeCollect.returned", result)
       IN Continue(runs, r, BeforeHooksFrom(run, run.i + 1, idCount + 1))

\* await hook(context) of a before-collect hook completes with `result`.
BeforeHookReturns(r, result) ==
    /\ UNCHANGED debVars
    /\ Awaiting(r, "beforeCollect")
    /\ LET run == Logged(runs[r], "beforeCollect.returned", result)
       IN Continue(runs, r,
                   IF result = "false"
                   THEN CatchError(run, CollectionCancelledError)
                   ELSE BeforeHooksFrom(run, run.i + 1, idCount + 1))

\* A before-collect hook throws x.
BeforeHookThrows(r, x) ==
    /\ UNCHANGED debVars
    /\ Awaiting(r, "beforeCollect")
    /\ Continue(runs, r, CatchError(Logged(runs[r], "beforeCollect.threw", x), x))

\* Mutant of ValidatorReturns: the errors of a later validator are put in
\* front of the ones collected so far.
ValidatorReturns_Prepends(r, result) ==
    /\ UNCHANGED debVars
    /\ Awaiting(r, "validate")
    /\ result \in ValidatorResults(config.validators[runs[r].i], runs[r].data)
    /\ LET run == [Logged(runs[r], "validate.returned", result) EXCEPT !.allErrors =
                        IF ~result.valid THEN result.errors \o @ ELSE @]
       IN Continue(runs, r, ValidatorsFrom(run, run.i + 1, idCount + 1))

\* await validator.validate(data) completes with `result`.
ValidatorReturns(r, result) ==
    /\ UNCHANGED debVars
    /\ Awaiting(r, "validate")
    /\ result \in ValidatorResults(config.validators[runs[r].i], runs[r].data)
    /\ LET run == [Logged(runs[r], "validate.returned", result) EXCEPT !.allErrors =
                        IF ~result.valid THEN @ \o result.errors ELSE @]
       IN Continue(runs, r, ValidatorsFrom(run, run.i + 1, idCount + 1))

\* validator.validate(data) throws x: the stage stops with a PluginError.
ValidatorThrows(r, x) ==
    /\ UNCHANGED debVars
    /\ Awaiting(r, "validate")
    /\ config.validators[runs[r].i] # "zod-validator"
    /\ Continue(runs, r,
                CatchError(Logged(runs[r], "validate.threw", x),
                           PluginError(config.validators[runs[r].i], "validate",
                                       NewErrorOf(x, "runValidators"))))

\* Mutant of TransformerReturns: what the transformer returns is noted but the
\* current item stays the one it was given.
TransformerReturns_KeepsInput(r, how) ==
    /\ UNCHANGED debVars
    /\ Awaiting(r, "transform")
    /\ LET current == IF how = "mark"
                      THEN Transformed(runs[r].item[1], config.transformers[runs[r].i])
                      ELSE Replaced(runs[r].item[1], config.transformers[runs[r].i])
           run == Logged(runs[r], "transform.returned", current)
       IN Continue(runs, r, TransformersFrom(run, run.i + 1))

\* await transformer.transform(current) completes.
TransformerReturns(r, how) ==
    /\ UNCHANGED debVars
    /\ Awaiting(r, "transform")
    /\ LET current == IF how = "mark"
                      THEN Transformed(runs[r].item[1], config.transformers[runs[r].i])
                      ELSE Replaced(runs[r].item[1], config.transformers[runs[r].i])
           run == [Logged(runs[r], "transform.returned", current) EXCEPT
                        !.item = <<current>>]
       IN Continue(runs, r, TransformersFrom(run, run.i + 1))

\* transformer.transform(current) throws x.
TransformerThrows(r, x) ==
    /\ UNCHANGED debVars
    /\ Awaiting(r, "transform")
    /\ Continue(runs, r,
                CatchError(Logged(runs[r], "transform.threw", x),
                           PluginError(config.transformers[runs[r].i], "transform",
                                       NewErrorOf(x, "runTransformers"))))

\* handler.handle(item) of handler h in stage s settles: it resolves, or it
\* rejects and runHandler throws its PluginError.
HandlerSettles(s, h, ok) ==
    /\ UNCHANGED debVars
    /\ UNCHANGED retryVars
    /\ s \in DOMAIN stages
    /\ h \in DOMAIN stages[s].calls
    /\ stages[s].calls[h] = "inflight"
    /\ stages' = [stages EXCEPT ![s].calls[h] = IF ok THEN "ok" ELSE "failed",
                                ![s].fault = IF ~ok /\ @ = Null THEN <<h>> ELSE @,
                                ![s].faults = IF ok THEN @ ELSE Append(@, h),
                                ![s].late = IF runs[stages[s].run].pc = "done"
                                            THEN @ \cup {h} ELSE @]
    /\ UNCHANGED <<config, runs, idCount, useLog, memVars>>

\* Every handler of stage s has resolved: Promise.all resolves.
AllHandled(s) == \A h \in DOMAIN stages[s].calls : stages[s].calls[h] = "ok"
\* The PluginError with which Promise.all rejects in stage s.
StageFault(s) ==
    LET name == config.handlers[stages[s].fault[1]]
    IN PluginError(name, "handle", [isError |-> TRUE, msg |-> "failed", origin |-> name])

\* await handlersToRun() completes, retry not configured.
HandlersResolve(r) ==
    /\ UNCHANGED debVars
    /\ Awaiting(r, "handlers")
    /\ config.retry = Null
    /\ AllHandled(runs[r].stage)
    /\ Continue(runs, r, AfterHooksFrom(Logged(runs[r], "handle.returned", Null), 1))

\* await handlersToRun() throws, retry not configured.
HandlersReject(r) ==
    /\ UNCHANGED debVars
    /\ Awaiting(r, "handlers")
    /\ config.retry = Null
    /\ stages[runs[r].stage].fault # Null
    /\ LET err == StageFault(runs[r].stage)
       IN Continue(runs, r, CatchError(Logged(runs[r], "handle.threw", err), err))

\* Mutant of RetryHooksFrom: only the first retry hook is called.
RetryHooksFrom_OnlyFirst(run, i_, call) ==
    IF i_ <= config.retryHooks /\ i_ = 1
    THEN [run EXCEPT !.hook = config.retryHooks,
                     !.retryCalls = Append(@, [hook |-> i_, attempt |-> call.attempt,
                                               error |-> call.error, delay |-> call.delay])]
    ELSE [run EXCEPT !.hook = 0]

\* for (const hook of this.hooks.retry) await hook(attempt, error, nextDelay),
\* from hook i on, inside the onRetry callback called with `call`.
RetryHooksFrom(run, i_, call) ==
    IF i_ <= config.retryHooks
    THEN [run EXCEPT !.hook = i_,
                     !.retryCalls = Append(@, [hook |-> i_, attempt |-> call.attempt,
                                               error |-> call.error, delay |-> call.delay])]
    ELSE [run EXCEPT !.hook = 0]

\* withRetry's await fn() completes: the handler stage succeeded.
AttemptResolves(r) ==
    /\ UNCHANGED colVars
    /\ Awaiting(r, "handlers")
    /\ config.retry # Null
    /\ runs[r].stage # 0
    /\ AllHandled(runs[r].stage)
    /\ FnReturns

\* Mutant of AttemptRejects: the failure of the stage is seen only once every
\* handler of the stage has settled.
AttemptRejects_AwaitsAll(r) ==
    /\ Awaiting(r, "handlers")
    /\ config.retry # Null
    /\ runs[r].stage # 0
    /\ stages[runs[r].stage].fault # Null
    /\ \A h \in DOMAIN stages[runs[r].stage].calls :
            stages[runs[r].stage].calls[h] # "inflight"
    /\ FnThrows(StageFault(runs[r].stage))
    /\ runs' = IF rPc' = "onRetry"
               THEN [runs EXCEPT ![r] = RetryHooksFrom(@, 1, onRetryLog'[Len(onRetryLog')])]
               ELSE runs
    /\ UNCHANGED <<config, stages, idCount, useLog, memVars>>

\* withRetry's await fn() throws: the handler stage failed.
AttemptRejects(r) ==
    /\ Awaiting(r, "handlers")
    /\ config.retry # Null
    /\ runs[r].stage # 0
    /\ stages[runs[r].stage].fault # Null
    /\ FnThrows(StageFault(runs[r].stage))
    /\ runs' = IF rPc' = "onRetry"
               THEN [runs EXCEPT ![r] = RetryHooksFrom(@, 1, onRetryLog'[Len(onRetryLog')])]
               ELSE runs
    /\ UNCHANGED <<config, stages, idCount, useLog, memVars>>

\* await hook(attempt, error, nextDelay) of a retry hook completes: the next
\* hook is called, or the onRetry callback completes and sleep(delay) starts.
RetryHooksReturn(r) ==
    /\ Awaiting(r, "handlers")
    /\ rPc = "onRetry"
    /\ IF runs[r].hook # 0 /\ runs[r].hook < config.retryHooks
       THEN /\ runs' = [runs EXCEPT ![r] = RetryHooksFrom(@, @.hook + 1, onRetryLog[Len(onRetryLog)])]
            /\ UNCHANGED debVars
            /\ UNCHANGED retryVars
       ELSE /\ runs' = [runs EXCEPT ![r].hook = 0]
            /\ OnRetryReturns
    /\ UNCHANGED <<config, stages, idCount, useLog, memVars>>

\* A retry hook throws: the onRetry callback throws.
RetryHookThrows(r) ==
    /\ Awaiting(r, "handlers")
    /\ runs[r].hook # 0
    /\ runs' = [runs EXCEPT ![r].hook = 0]
    /\ OnRetryThrows
    /\ UNCHANGED <<config, stages, idCount, useLog, memVars>>

\* The delay is over: withRetry calls handlersToRun() again.
NextAttempt(r) ==
    /\ Awaiting(r, "handlers")
    /\ SleepElapses
    /\ IF rPc' = "fn"
       THEN \E c \in HandlerStarts : StartStage(runs, r, runs[r], c)
       ELSE UNCHANGED <<runs, stages>>
    /\ UNCHANGED <<config, idCount, useLog, memVars>>

\* await withRetry(...) completes or throws.
WithRetrySettles(r) ==
    /\ UNCHANGED debVars
    /\ Awaiting(r, "handlers")
    /\ config.retry # Null
    /\ rPc \in {"returned", "threw"}
    /\ Continue(runs, r,
                IF rPc = "returned"
                THEN AfterHooksFrom(Logged(runs[r], "handle.returned", Null), 1)
                ELSE CatchError(Logged(runs[r], "handle.threw", rOutcome.error),
                                rOutcome.error))

\* await hook(item) of an after-collect hook completes.
AfterHookReturns(r) ==
    /\ UNCHANGED debVars
    /\ Awaiting(r, "afterCollect")
    /\ Continue(runs, r, AfterHooksFrom(Logged(runs[r], "afterCollect.returned", Null),
                                        runs[r].i + 1))

\* Mutant of AfterHookThrows: what an after-collect hook throws is dropped and
\* the next after-collect hook is called.
AfterHookThrows_GoesOn(r, x) ==
    /\ UNCHANGED debVars
    /\ Awaiting(r, "afterCollect")
    /\ Continue(runs, r, AfterHooksFrom(Logged(runs[r], "afterCollect.threw", x),
                                        runs[r].i + 1))

\* An after-collect hook throws x.
AfterHookThrows(r, x) ==
    /\ UNCHANGED debVars
    /\ Awaiting(r, "afterCollect")
    /\ Continue(runs, r, CatchError(Logged(runs[r], "afterCollect.threw", x), x))

\* await hook(error, context) of an error hook completes.
ErrorHookReturns(r) ==
    /\ UNCHANGED debVars
    /\ Awaiting(r, "error")
    /\ Continue(runs, r, ErrorHooksFrom(Logged(runs[r], "error.returned", Null),
                                        runs[r].i + 1))

\* An error hook throws x inside the catch block: x leaves executeCollection.
ErrorHookThrows(r, x) ==
    /\ UNCHANGED debVars
    /\ Awaiting(r, "error")
    /\ Continue(runs, r, Finish(Logged(runs[r], "error.threw", x), Threw(x)))

\* The options withRetry gets from runHandlersWithRetry.
RetryOptionsOf(cfg) ==
    IF cfg.retry = Null THEN NoRetry
    ELSE [attempts |-> cfg.retry[1].attempts, baseDelay |-> cfg.retry[1].baseDelay,
          maxDelay |-> DefaultMaxDelay, backoff |-> cfg.retry[1].backoff,
          retryOn |-> cfg.retry[1].retryOn, onRetry |-> TRUE]

\* The per-call metadata passed to collect(): none, keys that are and are not
\* among the defaults, a key given the value undefined.
MetadataChoices ==
    { Null,
      [userId |-> "u1", sessionId |-> "s1"],
      [source |-> "undefined"] }

\* A collector with nothing registered on it.
Bare ==
    [type |-> FeedbackType, schema |-> FALSE, validators |-> <<>>, beforeCollect |-> 0,
     transformers |-> <<>>, handlers |-> <<>>, afterCollect |-> 0, error |-> 0,
     retryHooks |-> 0, retry |-> Null, debounce |-> Null, defaultMetadata |-> Null,
     callMetadata |-> {Null}, parallel |-> TRUE, collects |-> 2]

\* The collectors explored: one with a schema, two more validators, a
\* transformer, two handlers and two hooks of each kind; the same with retry
\* of the handler stage and a single hook of each kind; one with three
\* handlers; one with a handler and a retry that retryOn restricts to network
\* errors; one with a transformer only, used twice; one with two
\* transformers, a handler and an after-collect hook; one with a handler, two
\* retry hooks and a retry of three attempts; one with default metadata
\* and a before-collect hook; one with nothing.
Scenarios ==
    { [Bare EXCEPT !.schema = TRUE, !.validators = <<"zod-validator", "A", "B">>,
                   !.beforeCollect = 2, !.transformers = <<"T">>,
                   !.handlers = <<"H1", "H2">>, !.afterCollect = 2, !.error = 2,
                   !.collects = 1],
      [Bare EXCEPT !.beforeCollect = 1, !.validators = <<"A">>, !.transformers = <<"T">>,
                   !.handlers = <<"H1", "H2">>, !.afterCollect = 1, !.error = 1,
                   !.retryHooks = 1,
                   !.retry = << [attempts |-> 2, baseDelay |-> 100, backoff |-> "fixed",
                                 retryOn |-> Null] >>,
                   !.collects = 1],
      [Bare EXCEPT !.handlers = <<"H1", "H2", "H3">>, !.error = 1, !.collects = 1],
      [Bare EXCEPT !.transformers = <<"T">>, !.collects = 2],
      [Bare EXCEPT !.transformers = <<"T", "U">>, !.handlers = <<"H1">>,
                   !.afterCollect = 1, !.collects = 1],
      [Bare EXCEPT !.handlers = <<"H1">>, !.retryHooks = 2,
                   !.retry = << [attempts |-> 3, baseDelay |-> 100, backoff |-> "linear",
                                 retryOn |-> Null] >>,
                   !.collects = 1],
      [Bare EXCEPT !.beforeCollect = 1, !.collects = 1,
                   !.defaultMetadata = [source |-> "web", userId |-> "anonymous"],
                   !.callMetadata = MetadataChoices],
      [Bare EXCEPT !.handlers = <<"H1">>, !.error = 1,
                   !.retry = << [attempts |-> 2, baseDelay |-> 100, backoff |-> "fixed",
                                 retryOn |-> <<{"network"}>>] >>,
                   !.collects = 1],
      Bare }

CollectorInit ==
    /\ config \in Scenarios
    /\ runs = <<>>
    /\ stages = <<>>
    /\ idCount = 0
    /\ useLog = <<>>
    /\ maxItems = 0
    /\ items = <<>>
    /\ handled = <<>>
    /\ RetryIdle(RetryOptionsOf(config))
    /\ DebIdle

CollectorNext ==
    \/ \E data \in DataChoices, metadata \in config.callMetadata : Collect(data, metadata)
    \/ \E r \in DOMAIN runs, result \in {"void", "false"} : BeforeHookReturns(r, result)
    \/ \E r \in DOMAIN runs, x \in ThrownBy("beforeCollect") : BeforeHookThrows(r, x)
    \/ \E r \in DOMAIN runs, n \in {"zod-validator", "A", "B"} :
            \E result \in ResultsOf(n) : ValidatorReturns(r, result)
    \/ \E r \in DOMAIN runs, x \in ThrownBy("validator") : ValidatorThrows(r, x)
    \/ \E r \in DOMAIN runs, how \in TransformerChoices : TransformerReturns(r, how)
    \/ \E r \in DOMAIN runs, x \in ThrownBy("transformer") : TransformerThrows(r, x)
    \/ \E s \in DOMAIN stages, h \in 1..3, ok \in BOOLEAN : HandlerSettles(s, h, ok)
    \/ \E r \in DOMAIN runs : HandlersResolve(r)
    \/ \E r \in DOMAIN runs : HandlersReject(r)
    \/ \E r \in DOMAIN runs : AttemptResolves(r)
    \/ \E r \in DOMAIN runs : AttemptRejects(r)
    \/ \E r \in DOMAIN runs : RetryHooksReturn(r)
    \/ \E r \in DOMAIN runs : RetryHookThrows(r)
    \/ \E r \in DOMAIN runs : NextAttempt(r)
    \/ \E r \in DOMAIN runs : WithRetrySettles(r)
    \/ \E r \in DOMAIN runs : AfterHookReturns(r)
    \/ \E r \in DOMAIN runs, x \in ThrownBy("afterCollect") : AfterHookThrows(r, x)
    \/ \E r \in DOMAIN runs : ErrorHookReturns(r)
    \/ \E r \in DOMAIN runs, x \in ThrownBy("error") : ErrorHookThrows(r, x)

\* The collector without debounce.
SpecCollector == CollectorInit /\ [][CollectorNext]_vars

\* ------------------------------------------------- FeedbackCollector, debounced
\* The data of the collect() call whose arguments the debouncer kept.
DataOfCall(args) == [schemaOk |-> TRUE, call |-> args[1]]

\* What execute() does when it gets to this.fn(...args): the bound
\* executeCollection is an async function, so it runs up to its first await
\* and hands execute() a Promise.
ExecuteCollection ==
    IF Len(execs') > Len(execs)
    THEN /\ execs'[Len(execs')].outcome = "inflight"
         /\ LET r == Len(runs) + 1
                base == Append(runs, Entered(DataOfCall(execs'[Len(execs')].args), Null, now))
            IN Continue(base, r, BeforeHooksFrom(base[r], 1, idCount + 1))
    ELSE UNCHANGED colVars

\* collect(data) on a collector with debounce: this.debouncer.call(data, metadata)
DebouncedCollect ==
    /\ config.debounce # Null
    /\ Len(calls) < config.collects
    /\ Call
    /\ ExecuteCollection

\* flush(): this.debouncer.flush()
CollectorFlush ==
    /\ config.debounce # Null
    /\ Flush
    /\ ExecuteCollection

\* cancel(): this.debouncer.cancel()
CollectorCancel ==
    /\ config.debounce # Null
    /\ Cancel
    /\ UNCHANGED colVars

\* The debouncer's quiet-period timer fires and executes the collection.
TrailingExecutes == TimeoutFires /\ ExecuteCollection

\* The debouncer's deadline timer fires and executes the collection.
DeadlineExecutes == MaxWaitFires /\ ExecuteCollection

\* Mutant of ExecutionSettles: the callers are settled when the execution has
\* reached its error hooks, before these have run.
ExecutionSettles_BeforeObservers(e) ==
    /\ e \in DOMAIN runs
    /\ runs[e].pc \in {"done", "error"}
    /\ FnSettles(e, runs[e].pc = "done" /\ runs[e].outcome.kind = "return")
    /\ UNCHANGED colVars

\* The Promise of execution e has settled as executeCollection left it: the
\* debouncer's .then / .catch callbacks settle the callers of its batch.
ExecutionSettles(e) ==
    /\ e \in DOMAIN runs
    /\ runs[e].pc = "done"
    /\ FnSettles(e, runs[e].outcome.kind = "return")
    /\ UNCHANGED colVars

\* Time passes.
ClockTick == Tick /\ UNCHANGED colVars

\* The debounced collector explored: one before-collect hook, one error hook,
\* a quiet period of 2 and a deadline of 3.
DebouncedScenarios ==
    { [Bare EXCEPT !.beforeCollect = 1, !.error = 1,
                   !.debounce = << [wait |-> 2, maxWait |-> <<3>>, leading |-> FALSE] >>,
                   !.collects = 2] }

\* new Debouncer(boundExecute, { wait, maxWait, leading }) in the constructor.
DebouncedInit ==
    /\ config \in DebouncedScenarios
    /\ runs = <<>>
    /\ stages = <<>>
    /\ idCount = 0
    /\ useLog = <<>>
    /\ maxItems = 0
    /\ items = <<>>
    /\ handled = <<>>
    /\ RetryIdle(NoRetry)
    /\ options = config.debounce[1]
    /\ now = 0
    /\ timeoutId = Null
    /\ maxWaitTimeoutId = Null
    /\ lastArgs = Null
    /\ leadingExecuted = FALSE
    /\ pendingPromises = <<>>
    /\ calls = <<>>
    /\ promises = <<>>
    /\ execs = <<>>

\* What the debouncer adds to the steps of the collector.
DebouncedNext ==
    \/ DebouncedCollect
    \/ CollectorFlush
    \/ CollectorCancel
    \/ TrailingExecutes
    \/ DeadlineExecutes
    \/ \E e \in DOMAIN runs : ExecutionSettles(e)
    \/ ClockTick

\* The collector, with or without debounce.
AnyCollectorInit == CollectorInit \/ DebouncedInit

AnyCollectorNext == CollectorNext \/ DebouncedNext

SpecAnyCollector == AnyCollectorInit /\ [][AnyCollectorNext]_vars

\* ------------------------------------------------------- FeedbackCollector.use
\* How many times use() is called.
MaxUses == 3

\* The plugins passed to use(): a name, the declared type, and an install hook
\* that is absent, returns or throws.
PluginChoices ==
    [name : {"P", "Q"}, type : {"validator", "transformer", "handler"},
     install : {"absent", "returns", "throws"}]

\* Mutant of RegisterPlugin: a plugin whose name is already in the list is not
\* added again.
RegisterPlugin_Deduplicates(registry, plugin) ==
    CASE plugin.type = "validator" ->
            [registry EXCEPT !.validators =
                IF \E k \in DOMAIN @ : @[k] = plugin.name THEN @ ELSE Append(@, plugin.name)]
      [] plugin.type = "transformer" ->
            [registry EXCEPT !.transformers =
                IF \E k \in DOMAIN @ : @[k] = plugin.name THEN @ ELSE Append(@, plugin.name)]
      [] plugin.type = "handler" ->
            [registry EXCEPT !.handlers =
                IF \E k \in DOMAIN @ : @[k] = plugin.name THEN @ ELSE Append(@, plugin.name)]
      [] OTHER -> registry

\* registerPlugin(registry, plugin): push on the list of the plugin's type
RegisterPlugin(registry, plugin) ==
    CASE plugin.type = "validator" ->
            [registry EXCEPT !.validators = Append(@, plugin.name)]
      [] plugin.type = "transformer" ->
            [registry EXCEPT !.transformers = Append(@, plugin.name)]
      [] plugin.type = "handler" ->
            [registry EXCEPT !.handlers = Append(@, plugin.name)]
      [] OTHER -> registry

\* Mutant of Use: a plugin whose install hook throws is taken off the registry
\* again.
Use_RollsBack(plugin, x) ==
    /\ Len(useLog) < MaxUses
    /\ config' = IF plugin.install = "throws" THEN config ELSE RegisterPlugin(config, plugin)
    /\ useLog' = Append(useLog,
            [plugin |-> plugin,
             installs |-> IF plugin.install = "absent" THEN 0 ELSE 1,
             outcome |-> IF plugin.install = "throws"
                         THEN Threw(PluginError(plugin.name, "install",
                                                NewErrorOf(x, "use")))
                         ELSE Returned("this")])
    /\ UNCHANGED <<debVars, retryVars, runs, stages, idCount, memVars>>

\* use(plugin): register, call plugin.install(this) if there is one, return
\* this; x is what a throwing install hook throws.
Use(plugin, x) ==
    /\ Len(useLog) < MaxUses
    /\ config' = RegisterPlugin(config, plugin)
    /\ useLog' = Append(useLog,
            [plugin |-> plugin,
             installs |-> IF plugin.install = "absent" THEN 0 ELSE 1,
             outcome |-> IF plugin.install = "throws"
                         THEN Threw(PluginError(plugin.name, "install",
                                                NewErrorOf(x, "use")))
                         ELSE Returned("this")])
    /\ UNCHANGED <<debVars, retryVars, runs, stages, idCount, memVars>>

\* A collector as its constructor leaves it: nothing registered, or the schema
\* validator only.
UseInit ==
    /\ config \in {Bare, [Bare EXCEPT !.schema = TRUE, !.validators = <<"zod-validator">>]}
    /\ runs = <<>>
    /\ stages = <<>>
    /\ idCount = 0
    /\ useLog = <<>>
    /\ maxItems = 0
    /\ items = <<>>
    /\ handled = <<>>
    /\ RetryIdle(NoRetry)
    /\ DebIdle

UseNext == \E plugin \in PluginChoices, x \in ThrownBy("install") : Use(plugin, x)

SpecUse == UseInit /\ [][UseNext]_vars

\* use() and collect() on one collector: plugins with an install hook that
\* returns or throws are registered at any moment, before and between the
\* steps of an execution. MaxInstalls bounds the use() calls made.
MaxInstalls == 2

InstallChoices ==
    { [name |-> p[1], type |-> p[2], install |-> how] :
        p \in {<<"A", "validator">>, <<"T", "transformer">>, <<"H1", "handler">>},
        how \in {"returns", "throws"} }

\* The collectors use() is called on have their hooks and no plugin yet: one
\* with a hook of each kind, one with a retry of the handler stage and a
\* retry hook.
Unplugged ==
    { [Bare EXCEPT !.beforeCollect = 1, !.afterCollect = 1, !.error = 1, !.collects = 1],
      [Bare EXCEPT !.retryHooks = 1,
                   !.retry = << [attempts |-> 2, baseDelay |-> 100, backoff |-> "fixed",
                                 retryOn |-> Null] >>,
                   !.collects = 1] }

RegistryInit ==
    /\ config \in Unplugged
    /\ runs = <<>>
    /\ stages = <<>>
    /\ idCount = 0
    /\ useLog = <<>>
    /\ maxItems = 0
    /\ items = <<>>
    /\ handled = <<>>
    /\ RetryIdle(RetryOptionsOf(config))
    /\ DebIdle

RegistryNext ==
    \/ /\ Len(useLog) < MaxInstalls
       /\ \E plugin \in InstallChoices :
            Use(plugin, [isError |-> TRUE, msg |-> "failed", origin |-> "install"])
    \/ CollectorNext

SpecRegistry == RegistryInit /\ [][RegistryNext]_vars

\* ------------------------------------------------------------- MemoryHandler
\* The largest maxItems a MemoryHandler is built with, and how many items are
\* handled before a clear().
MaxItems == 2
MaxHandled == 4

\* The items handed to handle().
ItemChoices == {"i1", "i2", "i3"}

\* array.slice(-n) for 0 < n
SliceLast(array, n) ==
    IF n >= Len(array) THEN array ELSE SubSeq(array, Len(array) - n + 1, Len(array))

\* Mutant of Handle: over the limit the oldest items are kept.
Handle_KeepsOldest(item) ==
    /\ Len(handled) < MaxHandled
    /\ items' = IF maxItems > 0 /\ Len(items) + 1 > maxItems
                THEN SubSeq(Append(items, item), 1, maxItems)
                ELSE Append(items, item)
    /\ handled' = Append(handled, item)
    /\ UNCHANGED <<debVars, retryVars, config, runs, stages, idCount, useLog, maxItems>>

\* handle(item): push, then cut down to the last maxItems
Handle(item) ==
    /\ Len(handled) < MaxHandled
    /\ items' = IF maxItems > 0 /\ Len(items) + 1 > maxItems
                THEN SliceLast(Append(items, item), maxItems)
                ELSE Append(items, item)
    /\ handled' = Append(handled, item)
    /\ UNCHANGED <<debVars, retryVars, config, runs, stages, idCount, useLog, maxItems>>

\* clear(): this._items = []
Clear ==
    /\ items' = <<>>
    /\ handled' = <<>>
    /\ UNCHANGED <<debVars, retryVars, config, runs, stages, idCount, useLog, maxItems>>

\* new MemoryHandler({ maxItems }) or new MemoryHandler(): maxItems ?? 0
MemoryInit ==
    /\ maxItems \in 0..MaxItems
    /\ items = <<>>
    /\ handled = <<>>
    /\ config = Null
    /\ runs = <<>>
    /\ stages = <<>>
    /\ idCount = 0
    /\ useLog = <<>>
    /\ RetryIdle(NoRetry)
    /\ DebIdle

MemoryNext ==
    \/ \E item \in ItemChoices : Handle(item)
    \/ Clear

SpecMemory == MemoryInit /\ [][MemoryNext]_vars

\* ----------------------------------------- runHandlers, one handler at a time
\* How many times runHandlers is called with parallel: false.
MaxStages == 2

\* The handler the for loop of stage s is waiting for, if any.
Current(s) ==
    IF \E h \in DOMAIN stages[s].calls : stages[s].calls[h] = "inflight"
    THEN << CHOOSE h \in DOMAIN stages[s].calls : stages[s].calls[h] = "inflight" >>
    ELSE Null

\* runHandlers(handlers, item, { parallel: false }) is called: the loop invokes
\* the first handler, or there is none and the call completes.
RunSequential(item) ==
    /\ Len(stages) < MaxStages
    /\ stages' = Append(stages,
            [run |-> 0, item |-> item,
             calls |-> [h \in DOMAIN config.handlers |->
                            IF h = 1 THEN "inflight" ELSE "notStarted"],
             thrown |-> Null,
             outcome |-> IF config.handlers = <<>> THEN Returned(Null) ELSE Null])
    /\ UNCHANGED <<debVars, retryVars, config, runs, idCount, useLog, memVars>>

\* await runHandler(handler) completes: the loop invokes the next handler, or
\* runHandlers completes after the last one.
SequentialHandlerResolves(s) ==
    /\ s \in DOMAIN stages
    /\ Current(s) # Null
    /\ LET h == Current(s)[1]
       IN stages' = [stages EXCEPT
                ![s].calls = [g \in DOMAIN @ |->
                                CASE g = h -> "ok"
                                  [] g = h + 1 -> "inflight"
                                  [] OTHER -> @[g]],
                ![s].outcome = IF h = Len(config.handlers) THEN Returned(Null) ELSE @]
    /\ UNCHANGED <<debVars, retryVars, config, runs, idCount, useLog, memVars>>

\* Mutant of SequentialHandlerThrows: the loop goes on to the next handler
\* after a failure.
SequentialHandlerThrows_GoesOn(s, x) ==
    /\ s \in DOMAIN stages
    /\ Current(s) # Null
    /\ LET h == Current(s)[1]
       IN stages' = [stages EXCEPT
                ![s].calls = [g \in DOMAIN @ |->
                                CASE g = h -> "failed"
                                  [] g = h + 1 -> "inflight"
                                  [] OTHER -> @[g]],
                ![s].thrown = <<x>>,
                ![s].outcome = Threw(PluginError(config.handlers[h], "handle",
                                                 NewErrorOf(x, "runHandlers")))]
    /\ UNCHANGED <<debVars, retryVars, config, runs, idCount, useLog, memVars>>

\* handler.handle(item) throws or rejects with x: runHandler throws the
\* PluginError, which leaves the loop and runHandlers.
SequentialHandlerThrows(s, x) ==
    /\ s \in DOMAIN stages
    /\ Current(s) # Null
    /\ LET h == Current(s)[1]
       IN stages' = [stages EXCEPT
                ![s].calls[h] = "failed",
                ![s].thrown = <<x>>,
                ![s].outcome = Threw(PluginError(config.handlers[h], "handle",
                                                 NewErrorOf(x, "runHandlers")))]
    /\ UNCHANGED <<debVars, retryVars, config, runs, idCount, useLog, memVars>>

\* A registry of up to three handlers, used by runHandlers directly.
SequentialInit ==
    /\ config \in {[Bare EXCEPT !.parallel = FALSE, !.collects = 0,
                                !.handlers = SubSeq(<<"H1", "H2", "H3">>, 1, n)] : n \in 0..3}
    /\ runs = <<>>
    /\ stages = <<>>
    /\ idCount = 0
    /\ useLog = <<>>
    /\ maxItems = 0
    /\ items = <<>>
    /\ handled = <<>>
    /\ RetryIdle(NoRetry)
    /\ DebIdle

SequentialNext ==
    \/ \E item \in ItemChoices : RunSequential(item)
    \/ \E s \in DOMAIN stages : SequentialHandlerResolves(s)
    \/ \E s \in DOMAIN stages, x \in ThrownBy("handler") : SequentialHandlerThrows(s, x)

\* The pipeline as the collector runs it, or runHandlers called directly with
\* parallel: false.
PipelineInit == CollectorInit \/ SequentialInit

PipelineNext ==
    \/ (config.parallel /\ CollectorNext)
    \/ (~config.parallel /\ SequentialNext)

SpecPipeline == PipelineInit /\ [][PipelineNext]_vars

\* ------------------------------------------------------------- specifications
\* The debouncer alone: withRetry is never called and no collector exists.
DebOnlyInit == DebInit /\ RetryIdle(NoRetry) /\ ColIdle

SpecDebouncer == DebOnlyInit /\ [][DebNext]_vars

\* withRetry alone.
RetryOnlyInit == RetryInit /\ DebIdle /\ ColIdle

SpecRetry == RetryOnlyInit /\ [][RetryNext]_vars

\* withRetry, called on its own or by a collector for its handler stage.
AnyRetryInit == RetryOnlyInit \/ CollectorInit

AnyRetryNext ==
    \/ (config = Null /\ RetryNext)
    \/ (config # Null /\ CollectorNext)

SpecAnyRetry == AnyRetryInit /\ [][AnyRetryNext]_vars

\* ------------------------------------------------------------------- helpers
Last(seq) == seq[Len(seq)]
Range(seq) == {seq[i] : i \in DOMAIN seq}
\* The executions whose batch holds call c.
ExecsOf(c) == {e \in DOMAIN execs : c \in Range(execs[e].waiters)}
\* What a waiter of execution e must observe.
OutcomeOf(e) ==
    CASE execs[e].outcome = "value" -> Resolved(FnResult(e))
      [] execs[e].outcome = "error" -> Rejected(FnError(e))
      [] OTHER -> PendingPromise
\* Calls i..j follow one another at intervals shorter than `wait`.
RECURSIVE Chained(_, _)
Chained(i, j) ==
    IF i >= j THEN TRUE
    ELSE calls[i + 1].t - calls[i].t < options.wait /\ Chained(i + 1, j)
\* A step in which the wrapped function is invoked.
Invokes == Len(execs') = Len(execs) + 1

\* C1 (state part): without leading and maxWait, an execution started by the
\* quiet-period timer runs with the arguments of the last call of its batch,
\* holds every call chained to one of its waiters at intervals shorter than
\* `wait`, is the only execution of those calls, and its outcome is what every
\* one of them observes; no buffered call waits longer than `wait` after the
\* last call.
C1_TrailingState ==
    (~options.leading /\ options.maxWait = Null) =>
        /\ \A e \in DOMAIN execs :
            execs[e].cause = "timeout" =>
                LET w == execs[e].waiters IN
                /\ w # <<>>
                /\ execs[e].args = calls[Last(w)].args
                /\ \A c \in Range(w) :
                    /\ ExecsOf(c) = {e}
                    /\ promises[c] = OutcomeOf(e)
                    /\ \A j \in DOMAIN calls :
                        (j > c /\ Chained(c, j)) => j \in Range(w)
        /\ pendingPromises # <<>> => now <= calls[Last(pendingPromises)].t + options.wait

\* C1 (step part): the quiet-period timer executes exactly `wait` after the
\* last call of the burst, once, for every queued caller.
C1_TrailingStep ==
    (~options.leading /\ options.maxWait = Null /\ TimeoutFires) =>
        /\ Invokes
        /\ now = calls[Last(pendingPromises)].t + options.wait
        /\ Last(execs').waiters = pendingPromises

\* C1: trailing-edge coalescing. With leading disabled and no maxWait, a
\* burst of calls each less than `wait` after the previous one causes exactly
\* one execution, `wait` after the last call, with the last call's arguments,
\* and every caller of the burst is settled with that execution's result.
C1_TrailingCoalescing == [](C1_TrailingState) /\ [][C1_TrailingStep]_vars

\* C1 witness: three chained calls were executed once by the quiet-period
\* timer and resolved with its result.
C1_Witness ==
    /\ ~options.leading /\ options.maxWait = Null
    /\ \E e \in DOMAIN execs :
        /\ execs[e].cause = "timeout"
        /\ execs[e].waiters = <<1, 2, 3>>
        /\ Chained(1, 3)
        /\ calls[3].t > calls[1].t
        /\ execs[e].outcome = "value"
        /\ now = calls[3].t + options.wait
        /\ \A c \in 1..3 : promises[c] = Resolved(FnResult(e))

\* C2 (state part): while the deadline timer is armed it is due maxWait after
\* the first call of the buffered burst, whatever calls followed; an execution
\* started by it is the only execution of its batch.
C2_DeadlineState ==
    (~options.leading /\ options.maxWait # Null) =>
        /\ maxWaitTimeoutId # Null =>
            /\ pendingPromises # <<>>
            /\ maxWaitTimeoutId[1] = calls[pendingPromises[1]].t + options.maxWait[1]
        /\ pendingPromises # <<>> =>
            /\ maxWaitTimeoutId # Null
            /\ now <= calls[pendingPromises[1]].t + options.maxWait[1]
        /\ \A e \in DOMAIN execs :
            execs[e].cause = "maxWait" =>
                /\ execs[e].waiters # <<>>
                /\ execs[e].args = calls[Last(execs[e].waiters)].args
                /\ \A c \in Range(execs[e].waiters) : ExecsOf(c) = {e}

\* C2 (step part): a call that joins a burst leaves the armed deadline timer
\* as it is, and the deadline fires maxWait after the first call of the burst,
\* executes once and cancels both timers.
C2_DeadlineStep ==
    /\ (Call /\ maxWaitTimeoutId # Null) => maxWaitTimeoutId' = maxWaitTimeoutId
    /\ (~options.leading /\ MaxWaitFires) =>
        /\ Invokes
        /\ now = calls[pendingPromises[1]].t + options.maxWait[1]
        /\ Last(execs').waiters = pendingPromises
        /\ timeoutId' = Null
        /\ maxWaitTimeoutId' = Null

\* C2: the deadline. With wait and maxWait in trailing mode a burst is executed
\* exactly once, maxWait after its first call; later calls neither re-arm nor
\* postpone the deadline timer, and its firing cancels the quiet-period timer.
C2_Deadline == [](C2_DeadlineState) /\ [][C2_DeadlineStep]_vars

\* C2 witness: calls kept arriving at intervals shorter than `wait` and the
\* deadline timer executed the three of them while the quiet-period timer
\* was still running.
C2_Witness ==
    /\ ~options.leading /\ options.maxWait # Null
    /\ \E e \in DOMAIN execs :
        /\ execs[e].cause = "maxWait"
        /\ execs[e].waiters = <<1, 2, 3>>
        /\ Chained(1, 3)
        /\ now = calls[1].t + options.maxWait[1]
        /\ now < calls[3].t + options.wait

\* C3: leading edge. With leading = true a call made less than `wait` after
\* a call that was executed on the leading edge does not invoke the wrapped
\* function again.
C3_LeadingNoSecondExecution ==
    [][(/\ options.leading
        /\ Call
        /\ execs # <<>>
        /\ Last(execs).cause = "leading"
        /\ Last(execs).waiters = <<Len(calls)>>
        /\ now - Last(calls).t < options.wait) => ~Invokes]_vars

\* C4 (state part): the promise of every waiter of an execution is in the
\* state that execution's outcome dictates, and a promise settled with an
\* execution's result or error belongs to a waiter of that execution.
C4_SameOutcomeState ==
    /\ \A e \in DOMAIN execs :
        \A c \in Range(execs[e].waiters) : promises[c] = OutcomeOf(e)
    /\ \A c \in DOMAIN promises : \A e \in 1..MaxCalls :
        promises[c].value \in {FnResult(e), FnError(e)} =>
            /\ e \in DOMAIN execs
            /\ c \in Range(execs[e].waiters)

\* C4 (step part): an execution takes every caller buffered when it starts.
C4_SameOutcomeStep ==
    Invokes =>
        \A c \in Range(pendingPromises) : c \in Range(Last(execs').waiters)

\* C4: all waiters of one coalesced batch observe the same outcome, that of
\* the batch's own execution, and of no other.
C4_SameOutcome == [](C4_SameOutcomeState) /\ [][C4_SameOutcomeStep]_vars

\* C4 witness: a batch of two was rejected by a synchronous throw, and a
\* later batch was resolved by its own execution.
C4_Witness ==
    \E e1, e2 \in DOMAIN execs :
        /\ e1 < e2
        /\ Len(execs[e1].waiters) = 2
        /\ \A c \in Range(execs[e1].waiters) : promises[c] = Rejected(FnError(e1))
        /\ \A c \in Range(execs[e2].waiters) : promises[c] = Resolved(FnResult(e2))

\* The debouncer under the event loop's scheduling: a due timer callback runs,
\* time passes, and the wrapped function's promise eventually settles.
SpecDebouncerFair ==
    /\ SpecDebouncer
    /\ WF_vars(DebOnlyTick)
    /\ WF_vars(DebOnlyTimeoutFires)
    /\ WF_vars(DebOnlyMaxWaitFires)
    /\ WF_vars(\E e \in 1..MaxCalls, ok \in BOOLEAN : DebOnlyFnSettles(e, ok))

\* C5 (state part): a queued caller always has the quiet-period timer armed
\* behind it, and with maxWait the deadline timer too, due no later than
\* maxWait after the caller's own call, so further calls cannot starve it.
C5_TimerBehindEveryWaiter ==
    \A i \in DOMAIN pendingPromises :
        /\ promises[pendingPromises[i]].state = "pending"
        /\ timeoutId # Null
        /\ options.maxWait # Null =>
            /\ maxWaitTimeoutId # Null
            /\ maxWaitTimeoutId[1] <= calls[pendingPromises[i]].t + options.maxWait[1]

\* Every promise call() has returned so far is resolved or rejected.
AllSettled == \A c \in DOMAIN promises : promises[c].state # "pending"

\* C5: no caller is silently dropped. From every point on, an instant comes
\* at which every promise call() has returned by then is resolved or rejected.
C5_NoCallerDropped ==
    /\ []<>AllSettled
    /\ [](C5_TimerBehindEveryWaiter)

\* C5 witness: every call was made and every promise is settled, one by an
\* execution's result, one by an execution's error and one by cancel().
C5_Witness ==
    /\ Len(calls) = MaxCalls
    /\ \A c \in DOMAIN promises : promises[c].state # "pending"
    /\ \E c \in DOMAIN promises : promises[c].state = "resolved"
    /\ \E c \in DOMAIN promises : promises[c] = Rejected(CancelError)
    /\ \E c \in DOMAIN promises : \E e \in DOMAIN execs : promises[c] = Rejected(FnError(e))

\* C6 (step part): cancel() on a pending batch rejects every queued caller
\* with the cancellation error, does not invoke the wrapped function, clears
\* both timers and the buffered arguments and leaves `pending` false.
C6_CancelStep ==
    (Cancel /\ lastArgs # Null) =>
        /\ \A c \in Range(pendingPromises) : promises'[c] = Rejected(CancelError)
        /\ execs' = execs
        /\ timeoutId' = Null
        /\ maxWaitTimeoutId' = Null
        /\ lastArgs' = Null
        /\ pendingPromises' = <<>>

\* C6 (state part): a cancelled caller is in no execution's batch, and while
\* nothing is pending no timer is armed that could execute later.
C6_CancelState ==
    /\ \A c \in DOMAIN promises :
        promises[c] = Rejected(CancelError) => ExecsOf(c) = {}
    /\ lastArgs = Null => (timeoutId = Null /\ maxWaitTimeoutId = Null)

\* C6: cancellation of a pending batch.
C6_Cancel == [](C6_CancelState) /\ [][C6_CancelStep]_vars

\* C6 witness: two queued callers were rejected by cancel(), nothing was
\* executed for them and a timer was armed again by a later call.
C6_Witness ==
    /\ Len(promises) >= 3
    /\ promises[1] = Rejected(CancelError)
    /\ promises[2] = Rejected(CancelError)
    /\ ExecsOf(1) = {} /\ ExecsOf(2) = {}
    /\ \E e \in DOMAIN execs : execs[e].waiters = <<3>> /\ execs[e].cause = "timeout"

\* C7 (step part): flush() with a batch pending invokes the wrapped function
\* at once with the latest buffered arguments for all queued callers and
\* cancels both timers; with nothing pending it changes nothing.
C7_FlushStep ==
    Flush =>
        IF lastArgs # Null
        THEN /\ Invokes
             /\ Last(execs').args = lastArgs
             /\ Last(execs').args = calls[Last(pendingPromises)].args
             /\ Last(execs').waiters = pendingPromises
             /\ timeoutId' = Null
             /\ maxWaitTimeoutId' = Null
             /\ lastArgs' = Null
        ELSE UNCHANGED vars

\* C7 (state part): a caller is in at most one execution's batch, and a
\* flushed batch leaves no timer behind.
C7_FlushState ==
    /\ \A c \in DOMAIN calls : Cardinality(ExecsOf(c)) <= 1
    /\ lastArgs = Null => (timeoutId = Null /\ maxWaitTimeoutId = Null)

\* C7: flush() executes a pending batch immediately and exactly once, and is
\* a no-op otherwise.
C7_Flush == [](C7_FlushState) /\ [][C7_FlushStep]_vars

\* C7 witness: flush() executed a batch of two before its timers were due,
\* time went past both due instants and the batch was executed once.
C7_Witness ==
    \E e \in DOMAIN execs :
        /\ execs[e].cause = "flush"
        /\ execs[e].waiters = <<1, 2>>
        /\ execs[e].outcome = "value"
        /\ now > calls[2].t + options.wait
        /\ ExecsOf(1) = {e} /\ ExecsOf(2) = {e}

\* --------------------------------------------------------- withRetry claims
\* How many onRetry calls and delays i - 1 failed tries leave behind.
OnRetryCallsAfter(n) == IF rOptions.onRetry THEN n ELSE 0
\* The Error that stands for a thrown value x: x itself when it is an Error
\* instance, otherwise a new Error made by withRetry from its string form.
AsError(x) ==
    IF x.isError THEN x ELSE [isError |-> TRUE, msg |-> x.msg, origin |-> "withRetry"]
\* retryOn is present and returns false for the value thrown by try i.
VetoedTry(i) ==
    /\ fnLog[i].state = "threw"
    /\ rOptions.retryOn # Null
    /\ fnLog[i].thrown[1].msg \notin rOptions.retryOn[1]

\* C8: retry attempt bound. For attempts >= 1 the operation is invoked at
\* least once and at most `attempts` times, one invocation at a time; once an
\* invocation succeeds its result is returned and no invocation, delay or
\* onRetry call follows.
C8_AttemptBound ==
    rOptions.attempts >= 1 =>
        /\ Len(fnLog) <= rOptions.attempts
        /\ rPc # "start" => Len(fnLog) >= 1
        /\ \A i \in DOMAIN fnLog :
            /\ fnLog[i].state = "running" => (i = Len(fnLog) /\ rPc = "fn")
            /\ fnLog[i].state = "ok" =>
                /\ i = Len(fnLog)
                /\ rPc = "returned"
                /\ rOutcome = Returned(<<"result", i>>)
                /\ Len(sleepLog) = i - 1
                /\ Len(onRetryLog) = OnRetryCallsAfter(i - 1)

\* C8 witness: the last allowed try of three succeeded after two failures.
C8_Witness ==
    /\ rOptions.attempts = 3
    /\ Len(fnLog) = 3
    /\ fnLog[1].state = "threw" /\ fnLog[2].state = "threw" /\ fnLog[3].state = "ok"
    /\ rPc = "returned"

\* Every one of the `attempts` tries failed and none was vetoed by retryOn.
AllTriesFailed ==
    /\ rOptions.attempts >= 1
    /\ Len(fnLog) = rOptions.attempts
    /\ \A i \in DOMAIN fnLog : fnLog[i].state = "threw" /\ ~VetoedTry(i)

\* C9 as claimed: after `attempts` failed tries withRetry throws
\* RetryExhausted carrying `attempts` and the very value the final try threw.
C9_LastErrorIsThrownValue ==
    AllTriesFailed =>
        rOutcome = Threw([name |-> "RetryExhaustedError",
                          attempts |-> rOptions.attempts,
                          lastError |-> Last(fnLog).thrown[1]])

\* C9 amended: after `attempts` failed tries withRetry throws RetryExhausted
\* carrying `attempts` (the number of tries made) and the final try's error
\* as an Error: the thrown value itself when it is an Error instance, a new
\* Error of its string form otherwise.
C9_RetryExhausted ==
    AllTriesFailed =>
        /\ rPc = "threw"
        /\ rOutcome = Threw([name |-> "RetryExhaustedError",
                             attempts |-> Len(fnLog),
                             lastError |-> AsError(Last(fnLog).thrown[1])])
        /\ rOutcome.error.attempts = rOptions.attempts

\* C9 witness: three tries failed with three different values, the last one
\* an Error instance.
C9_Witness ==
    /\ AllTriesFailed
    /\ rOptions.attempts = 3
    /\ ~fnLog[1].thrown[1].isError
    /\ fnLog[2].thrown[1] # fnLog[3].thrown[1]
    /\ fnLog[3].thrown[1].isError
    /\ rPc = "threw"

\* C10 as claimed: a try vetoed by retryOn is the last one, no onRetry call
\* and no delay follows it, and withRetry throws the very value the try threw.
C10_VetoSurfacesThrownValue ==
    \A i \in DOMAIN fnLog :
        VetoedTry(i) =>
            /\ i = Len(fnLog)
            /\ rPc = "threw"
            /\ Len(sleepLog) = i - 1
            /\ Len(onRetryLog) = OnRetryCallsAfter(i - 1)
            /\ rOutcome = Threw(fnLog[i].thrown[1])

\* C10 amended: a try vetoed by retryOn is the last one, no onRetry call and
\* no delay follows it, and withRetry throws that try's error (not
\* RetryExhausted) as an Error: the thrown value itself when it is an Error
\* instance, a new Error of its string form otherwise. This holds for any
\* try, the first and the last allowed one included.
C10_RetryOnVeto ==
    \A i \in DOMAIN fnLog :
        VetoedTry(i) =>
            /\ i = Len(fnLog)
            /\ rPc = "threw"
            /\ Len(sleepLog) = i - 1
            /\ Len(onRetryLog) = OnRetryCallsAfter(i - 1)
            /\ rOutcome = Threw(AsError(fnLog[i].thrown[1]))

\* C10 witness: the last allowed try of three was vetoed after two retried
\* failures, and the vetoed Error itself was thrown.
C10_Witness ==
    /\ rOptions.attempts = 3
    /\ Len(fnLog) = 3
    /\ VetoedTry(3)
    /\ fnLog[3].thrown[1].isError
    /\ rOutcome = Threw(fnLog[3].thrown[1])

\* ------------------------------------------------------- calculateDelay claims
\* The unjittered policy delay d of failed attempt k under the options in force.
PolicyOf(k) == PolicyDelay(k, rOptions.baseDelay, rOptions.backoff)
\* The delays computed so far, by the failed attempt they follow: those
\* already slept, and the one just computed while onRetry is awaited.
DelayAfter ==
    [k \in 1..(IF rPc \in {"onRetry", "sleep"} THEN attempt ELSE Len(sleepLog)) |->
        IF k <= Len(sleepLog) THEN sleepLog[k] ELSE delay]

\* C11 as claimed: for baseDelay >= 0 the delay waited after failed attempt k
\* is in [0, maxDelay], and when 1.1 * d <= maxDelay it lies within
\* [0.9 * d, 1.1 * d], d being the policy delay of attempt k.
C11_DelayWithinTenPercent ==
    \A k \in DOMAIN DelayAfter :
        LET d == PolicyOf(k)
            r == DelayAfter[k]
        IN /\ 0 <= r /\ r <= rOptions.maxDelay
           /\ 11 * d <= 10 * rOptions.maxDelay => (9 * d <= 10 * r /\ 10 * r <= 11 * d)

\* C11 amended: the delay waited after failed attempt k is an integer in
\* [0, maxDelay] that is within the claimed derivation (the policy delay d
\* capped at maxDelay, moved by at most 10% of d, capped again and rounded),
\* and when 1.1 * d <= maxDelay it lies within [0.9 * d, 1.1 * d] up to the
\* final rounding, i.e. between round(0.9 * d) and round(1.1 * d); for
\* attempts = 3, baseDelay = 100, exponential and maxDelay = 10000 that is
\* 90..110 after attempt 1 and 180..220 after attempt 2.
C11_BackoffArithmetic ==
    /\ \A k \in DOMAIN DelayAfter :
        LET d == PolicyOf(k)
            r == DelayAfter[k]
            capped == IF d > rOptions.maxDelay THEN rOptions.maxDelay ELSE d
        IN /\ 0 <= r /\ r <= rOptions.maxDelay
           /\ RoundRatio(10 * capped - d, 10) <= r
           /\ 11 * d <= 10 * rOptions.maxDelay =>
                (RoundRatio(9 * d, 10) <= r /\ r <= RoundRatio(11 * d, 10))
    /\ (/\ rOptions.baseDelay = 100 /\ rOptions.backoff = "exponential"
        /\ rOptions.maxDelay = 10000) =>
            /\ 1 \in DOMAIN DelayAfter => DelayAfter[1] \in 90..110
            /\ 2 \in DOMAIN DelayAfter => DelayAfter[2] \in 180..220

\* C11 witness: attempts = 3, baseDelay = 100, exponential, maxDelay = 10000;
\* 90 was waited after the first failure (the jitter at its lowest) and 216
\* after the second.
C11_Witness ==
    /\ rOptions.attempts = 3 /\ rOptions.baseDelay = 100
    /\ rOptions.backoff = "exponential" /\ rOptions.maxDelay = 10000
    /\ sleepLog = <<90, 216>>
    /\ rPc = "threw"

\* ------------------------------------------------------------ collector claims
\* The stage an entry of a run's history belongs to, in the order
\* before-collect hooks, validation, item construction, transformers,
\* handlers, after-collect hooks; the error hooks come last.
StageOf(ev) ==
    CASE ev \in {"beforeCollect", "beforeCollect.returned", "beforeCollect.threw"} -> 1
      [] ev \in {"schema", "validate", "validate.returned", "validate.threw",
                 "runValidators.returned"} -> 2
      [] ev = "build" -> 3
      [] ev \in {"transform", "transform.returned", "transform.threw"} -> 4
      [] ev \in {"handle", "handle.returned", "handle.threw"} -> 5
      [] ev \in {"afterCollect", "afterCollect.returned", "afterCollect.threw"} -> 6
      [] OTHER -> 7
\* The entries of a history that are invocations of a hook, a plugin or the
\* handler stage.
IsInvocation(ev) == ev \in {"beforeCollect", "validate", "transform", "handle", "afterCollect"}
\* The entries `ev` of a history, in order.
Entries(log, ev) == SelectSeq(log, LAMBDA e : e.ev = ev)
\* The places of the entries `ev` in a history.
Places(log, ev) == {k \in DOMAIN log : log[k].ev = ev}

\* C12: stage ordering. Within one execution the stages run in the order
\* before-collect hooks, validation, item construction, transformers,
\* handlers, after-collect hooks; nothing is invoked before the call made
\* before it has come back successfully; a handler is invoked only after every
\* before-collect hook passed, validation was valid and every transformer
\* succeeded; an after-collect hook only after the handler stage completed.
C12_StageOrdering ==
    \A r \in DOMAIN runs :
        LET log == runs[r].log IN
        /\ \A j, k \in DOMAIN log : j < k => StageOf(log[j].ev) <= StageOf(log[k].ev)
        /\ \A k \in DOMAIN log :
            (k > 1 /\ IsInvocation(log[k].ev)) =>
                \/ log[k - 1].ev \in {"beforeCollect.returned", "validate.returned",
                                      "transform.returned", "handle.returned",
                                      "afterCollect.returned", "schema", "build",
                                      "runValidators.returned"}
                \/ (log[k].ev = "handle" /\ log[k - 1].ev = "handle" /\ config.retry # Null)
        /\ Places(log, "handle") # {} =>
            /\ Len(Entries(log, "beforeCollect.returned")) = config.beforeCollect
            /\ \A k \in Places(log, "beforeCollect.returned") : log[k].arg # "false"
            /\ Places(log, "beforeCollect.threw") = {}
            /\ config.schema => (Len(Entries(log, "schema")) = 1 /\ runs[r].data.schemaOk)
            /\ Len(Entries(log, "validate.returned")) = Len(config.validators)
            /\ Places(log, "validate.threw") = {}
            /\ runs[r].allErrors = <<>>
            /\ Len(Entries(log, "build")) = 1
            /\ Len(Entries(log, "transform.returned")) = Len(config.transformers)
            /\ Places(log, "transform.threw") = {}
        /\ (Places(log, "afterCollect") # {} /\ Len(config.handlers) > 0) =>
                /\ Len(Entries(log, "handle.returned")) = 1
                /\ AllHandled(runs[r].stage)
                /\ stages[runs[r].stage].run = r
                /\ config.retry # Null => rPc = "returned"

\* C12 witness: an execution went through every stage (two before-collect
\* hooks, the schema and three validators, a transformer, two handlers, two
\* after-collect hooks) and returned its item.
C12_Witness ==
    \E r \in DOMAIN runs :
        /\ runs[r].pc = "done"
        /\ runs[r].outcome.kind = "return"
        /\ config.beforeCollect = 2 /\ config.afterCollect = 2
        /\ Len(config.validators) = 3 /\ Len(config.handlers) = 2
        /\ Len(runs[r].log) = 21

\* Run r was cancelled: one of its before-collect hooks returned false.
CancelledByHook(r) ==
    \E k \in DOMAIN runs[r].log :
        runs[r].log[k].ev = "beforeCollect.returned" /\ runs[r].log[k].arg = "false"
\* Run r has left executeCollection.
Done(r) == runs[r].pc = "done"
\* An error hook of run r threw.
ErrorHookThrew(r) == Places(runs[r].log, "error.threw") # {}

\* What a cancelled run does short of its outcome: after the false nothing but
\* error hooks is invoked, no item is built and no handler stage started, and
\* the error hooks get a CollectionCancelledError and no phase.
CancelledStopsStages(r) ==
    LET log == runs[r].log IN
    /\ \A k, j \in DOMAIN log :
            (log[k].ev = "beforeCollect.returned" /\ log[k].arg = "false" /\ k < j)
                => StageOf(log[j].ev) = 7
    /\ \A k \in DOMAIN log : StageOf(log[k].ev) \in {1, 7}
    /\ runs[r].item = Null
    /\ runs[r].stage = 0
    /\ \A s \in DOMAIN stages : stages[s].run # r
    /\ runs[r].error = <<CollectionCancelledError>>
    /\ \A k \in Places(log, "error") :
            log[k].arg = [error |-> CollectionCancelledError, phase |-> Null]
    /\ config.error > 0 => Places(log, "error") # {}

RECURSIVE AllErrorsOf(_)
AllErrorsOf(results) ==
    IF results = <<>> THEN <<>>
    ELSE Head(results).errors \o AllErrorsOf(Tail(results))
\* The results the validators of a run returned, in the order they returned.
ResultsIn(log) ==
    LET es == Entries(log, "validate.returned") IN [k \in DOMAIN es |-> es[k].arg]

\* Validators are invoked one at a time in registration order, and one that
\* reports invalid does not keep the next one from being invoked.
ValidatorsInOrder(log) ==
    /\ LET es == Entries(log, "validate") IN \A j \in DOMAIN es : es[j].i = j
    /\ LET es == Entries(log, "validate.returned") IN \A j \in DOMAIN es : es[j].i = j
    /\ \A k \in Places(log, "validate") : k < Len(log) => log[k + 1].i = log[k].i
    /\ \A k \in Places(log, "validate.returned") :
            (log[k].i < Len(config.validators) /\ k < Len(log)) =>
                (log[k + 1].ev = "validate" /\ log[k + 1].i = log[k].i + 1)

\* C14 as stated: the errors runValidators returns are the concatenation of
\* the error lists of all validators.
C14_ConcatenatesAll ==
    \A r \in DOMAIN runs :
        \A k \in Places(runs[r].log, "runValidators.returned") :
            runs[r].log[k].arg.errors = AllErrorsOf(ResultsIn(runs[r].log))

\* C14: validator accumulation. runValidators invokes every registered
\* validator, one at a time in registration order, even after an earlier one
\* reported invalid; the errors it returns are the concatenation, in
\* registration order, of the error lists of the validators that reported
\* invalid, and the `valid` it returns is true iff that list is empty.
C14_ValidatorAccumulation ==
    \A r \in DOMAIN runs :
        LET log == runs[r].log IN
        /\ ValidatorsInOrder(log)
        /\ \A k \in Places(log, "runValidators.returned") :
            /\ Len(ResultsIn(log)) = Len(config.validators)
            /\ log[k].arg.errors =
                    AllErrorsOf(SelectSeq(ResultsIn(log), LAMBDA res : ~res.valid))
            /\ log[k].arg.valid = (log[k].arg.errors = <<>>)

\* C14 witness: validators A and B, registered in that order after the
\* schema's validator, both reported invalid with their errors and
\* runValidators returned A's errors followed by B's.
C14_Witness ==
    \E r \in DOMAIN runs :
        \E k \in Places(runs[r].log, "runValidators.returned") :
            /\ config.validators = <<"zod-validator", "A", "B">>
            /\ ResultsIn(runs[r].log) =
                    <<ValidResult, InvalidResult("A"), InvalidResult("B")>>
            /\ runs[r].log[k].arg =
                    [valid |-> FALSE, errors |-> << <<"A", 1>>, <<"A", 2>>, <<"B", 1>> >>]

\* The schema check or a validator of run r returned a result with valid = false.
InvalidReported(r) ==
    \/ Places(runs[r].log, "schema") # {} /\ ~ValidateWithSchema(runs[r].data).valid
    \/ \E k \in Places(runs[r].log, "validate.returned") : ~runs[r].log[k].arg.valid

\* C15: any invalid validation result stops the collection. If the schema
\* check or a validator returned valid = false, no item is constructed, no
\* transformer, handler or after-collect hook runs, and collect fails with a
\* ValidationError that carries the accumulated error list.
C15_InvalidStopsCollection ==
    \A r \in DOMAIN runs :
        InvalidReported(r) =>
            /\ runs[r].item = Null
            /\ \A k \in DOMAIN runs[r].log : StageOf(runs[r].log[k].ev) \notin {3, 4, 5, 6}
            /\ Done(r) =>
                /\ runs[r].outcome.kind = "throw"
                /\ InstanceOf(runs[r].outcome.error, "ValidationError")
                /\ runs[r].outcome.error.errors =
                        IF Places(runs[r].log, "runValidators.returned") # {}
                        THEN runs[r].allErrors
                        ELSE ValidateWithSchema(runs[r].data).errors

\* A validator of run r reported invalid without any error message and run r
\* went on to build its item.
C15_InvalidWentOn ==
    \E r \in DOMAIN runs :
        /\ \E k \in Places(runs[r].log, "validate.returned") :
                runs[r].log[k].arg = [valid |-> FALSE, errors |-> <<>>]
        /\ Done(r)
        /\ runs[r].outcome.kind = "return"

\* C16: handler fan-out. In every handler-stage attempt every registered
\* handler is started, in registration order, also when another handler
\* fails synchronously or asynchronously; the stage fails with the first
\* handler failure seen, a PluginError naming that handler with phase
\* "handle", as soon as that failure is there, whatever the other handlers
\* are doing: they are neither awaited nor stopped.
C16_HandlerFanOut ==
    /\ \A s \in DOMAIN stages :
        /\ stages[s].started = config.handlers
        /\ DOMAIN stages[s].calls = 1..Len(config.handlers)
        /\ \A h \in DOMAIN stages[s].calls : stages[s].calls[h] \in {"inflight", "ok", "failed"}
        /\ stages[s].fault = IF stages[s].faults = <<>> THEN Null
                             ELSE <<Head(stages[s].faults)>>
        /\ stages[s].fault # Null =>
            /\ StageFault(s).name = "PluginError"
            /\ StageFault(s).pluginName = config.handlers[Head(stages[s].faults)]
            /\ StageFault(s).phase = "handle"
    /\ \A r \in DOMAIN runs :
        (config.retry = Null /\ Awaiting(r, "handlers")) =>
            (stages[runs[r].stage].fault # Null <=> ENABLED HandlersReject(r))
    /\ \A r \in DOMAIN runs :
        \A k \in Places(runs[r].log, "handle.threw") :
            config.retry = Null =>
                /\ runs[r].log[k].arg = StageFault(runs[r].stage)
                /\ runs[r].error = <<StageFault(runs[r].stage)>>
                /\ runs[r].log[k - 1].ev = "handle"

\* C16 witness: of three handlers the second failed while the other two were
\* in flight; collect failed with the PluginError naming it, the first handler
\* completed after that and the third is still in flight.
C16_Witness ==
    \E r \in DOMAIN runs :
        /\ Done(r)
        /\ config.handlers = <<"H1", "H2", "H3">>
        /\ runs[r].outcome.kind = "throw"
        /\ InstanceOf(runs[r].outcome.error, "PluginError")
        /\ runs[r].outcome.error.pluginName = "H2"
        /\ runs[r].outcome.error.phase = "handle"
        /\ stages[runs[r].stage].calls = <<"ok", "failed", "inflight">>
        /\ stages[runs[r].stage].late = {1}

\* How often entry `ev` number i_ occurs in a history.
Times(log, ev, i_) == Cardinality({k \in Places(log, ev) : log[k].i = i_})
\* The handler stages started for run r.
StagesOf(r) == {s \in DOMAIN stages : stages[s].run = r}

\* C17: retry wraps only the handler stage. In one execution each
\* before-collect hook, the schema check, each validator, the item
\* construction and each transformer run once however many handler attempts
\* are made, every handler attempt gets the same item (same id, same
\* timestamp), and without retry the handler stage is attempted once.
C17_RetryWrapsHandlersOnly ==
    \A r \in DOMAIN runs :
        LET log == runs[r].log IN
        /\ \A i_ \in 1..config.beforeCollect : Times(log, "beforeCollect", i_) <= 1
        /\ \A i_ \in 1..Len(config.validators) : Times(log, "validate", i_) <= 1
        /\ \A i_ \in 1..Len(config.transformers) : Times(log, "transform", i_) <= 1
        /\ Len(Entries(log, "schema")) <= 1
        /\ Len(Entries(log, "build")) <= 1
        /\ Len(Entries(log, "handle")) = Cardinality(StagesOf(r))
        /\ StagesOf(r) # {} =>
            /\ \A i_ \in 1..config.beforeCollect : Times(log, "beforeCollect", i_) = 1
            /\ \A i_ \in 1..Len(config.validators) : Times(log, "validate", i_) = 1
            /\ \A i_ \in 1..Len(config.transformers) : Times(log, "transform", i_) = 1
            /\ Len(Entries(log, "schema")) = IF config.schema THEN 1 ELSE 0
            /\ Len(Entries(log, "build")) = 1
            /\ \A s \in StagesOf(r) :
                /\ stages[s].item = runs[r].item[1]
                /\ \A s2 \in StagesOf(r) :
                        /\ stages[s2].item.id = stages[s].item.id
                        /\ stages[s2].item.timestamp = stages[s].item.timestamp
            /\ \A k \in Places(log, "handle") : log[k].arg = runs[r].item[1]
        /\ config.retry = Null => Cardinality(StagesOf(r)) <= 1
        /\ config.retry # Null =>
            /\ Cardinality(StagesOf(r)) = Len(fnLog)
            /\ Cardinality(StagesOf(r)) <= config.retry[1].attempts

\* C17 witness: with retry configured the handler stage was attempted twice
\* and the execution is over; the hooks, the validator, the construction and
\* the transformer ran once.
C17_Witness ==
    \E r \in DOMAIN runs :
        /\ Done(r)
        /\ config.retry # Null
        /\ Cardinality(StagesOf(r)) = 2
        /\ Len(Entries(runs[r].log, "build")) = 1
        /\ Times(runs[r].log, "transform", 1) = 1
        /\ Times(runs[r].log, "beforeCollect", 1) = 1
        /\ runs[r].outcome.kind = "return"

\* Run r failed: collect threw.
Failed(r) == Done(r) /\ runs[r].outcome.kind = "throw"

\* The error hooks invoked so far were invoked in registration order, one at
\* a time, each with the error of the failed stage, as an Error, and its phase.
ErrorHooksInOrder(r) ==
    LET log == runs[r].log
        es == Entries(log, "error")
    IN /\ \A j \in DOMAIN es : es[j].i = j
       /\ Len(es) <= config.error
       /\ \A k \in Places(log, "error") :
            /\ runs[r].error # Null
            /\ log[k].arg = [error |-> NewErrorOf(runs[r].error[1], "executeCollection"),
                             phase |-> GetErrorPhase(runs[r].error[1])]
            /\ log[k].i > 1 => (log[k - 1].ev = "error.returned" /\ log[k - 1].i = log[k].i - 1)
            /\ log[k].i = 1 => (k > 1 /\ StageOf(log[k - 1].ev) < 7)
            /\ k < Len(log) => (log[k + 1].ev \in {"error.returned", "error.threw"}
                                /\ log[k + 1].i = log[k].i)

ObserversRanFor(r, err) ==
    /\ Len(Entries(runs[r].log, "error")) = config.error
    /\ Len(Entries(runs[r].log, "error.returned")) = config.error
    /\ \A k \in Places(runs[r].log, "error") :
            runs[r].log[k].arg.error = NewErrorOf(err, "executeCollection")

\* The failure of run r went through the error hooks: all of them ran for the
\* error of the failed stage, which is the error of run r, or one of them
\* threw the error of run r.
FailureObserved(r) ==
    /\ runs[r].error # Null
    /\ IF ErrorHookThrew(r)
       THEN /\ Last(runs[r].log).ev = "error.threw"
            /\ runs[r].outcome.error = Last(runs[r].log).arg
       ELSE /\ ObserversRanFor(r, runs[r].error[1])
            /\ runs[r].outcome.error = runs[r].error[1]

\* No error hook is invoked in a run that returns its item.
NoObserverOnSuccess ==
    \A r \in DOMAIN runs :
        (Done(r) /\ runs[r].outcome.kind = "return") =>
            (Places(runs[r].log, "error") = {} /\ runs[r].error = Null)

\* A caller of a debounced collect gets an item only from an execution of its
\* batch that returned one.
ResolvedByExecution ==
    \A c \in DOMAIN promises :
        promises[c].state = "resolved" =>
            \E e \in DOMAIN runs :
                /\ promises[c].value = FnResult(e)
                /\ c \in Range(execs[e].waiters)
                /\ Done(e) /\ runs[e].outcome.kind = "return"

\* A settled promise stays as it is and so does what a finished run threw or
\* returned: a caller sees one error or one item, never both.
SettledOnce ==
    /\ \A c \in DOMAIN promises :
            promises[c].state # "pending" => promises'[c] = promises[c]
    /\ \A r \in DOMAIN runs : Done(r) => runs'[r] = runs[r]

PhaseFor(err) ==
    CASE InstanceOf(err, "ValidationError") -> <<"validation">>
      [] InstanceOf(err, "PluginError") /\ err.phase = "validate" -> <<"validation">>
      [] InstanceOf(err, "PluginError") /\ err.phase = "transform" -> <<"transform">>
      [] InstanceOf(err, "PluginError") /\ err.phase = "handle" -> <<"handler">>
      [] OTHER -> Null
\* The entry of a run's history with which its try block failed: the one
\* before the first error hook.
FailingEntry(log) ==
    log[(CHOOSE k \in Places(log, "error") : log[k].i = 1) - 1]
\* The error hooks of run r all got the phase `phase`.
ReportedWith(r, phase) ==
    \A k \in Places(runs[r].log, "error") : runs[r].log[k].arg.phase = phase

\* C20 as stated: the phase follows the kind of error, and a failure of the
\* handler stage is reported with phase "handler".
C20_HandlerFailureHasPhase ==
    \A r \in DOMAIN runs :
        Places(runs[r].log, "error") # {} =>
            /\ ReportedWith(r, PhaseFor(runs[r].error[1]))
            /\ FailingEntry(runs[r].log).ev = "handle.threw" => ReportedWith(r, <<"handler">>)

\* C20: phase attribution. The phase passed to the error hooks is "validation"
\* for a ValidationError and a PluginError of phase validate, "transform" and
\* "handler" for a PluginError of phase transform and handle, absent for any
\* other error. So a validation failure is reported with "validation", a
\* failing transformer with "transform", a cancellation and a throwing hook
\* with no phase, and a failing handler with "handler" when its PluginError is
\* what the handler stage throws (no retry, or retryOn refuses the retry) but
\* with no phase when withRetry throws an error of its own.
C20_PhaseAttribution ==
    \A r \in DOMAIN runs :
        Places(runs[r].log, "error") # {} =>
            LET f == FailingEntry(runs[r].log) IN
            /\ ReportedWith(r, PhaseFor(runs[r].error[1]))
            /\ f.ev \in {"schema", "runValidators.returned", "validate.threw"}
                    => ReportedWith(r, <<"validation">>)
            /\ f.ev = "transform.threw" => ReportedWith(r, <<"transform">>)
            /\ f.ev \in {"beforeCollect.returned", "beforeCollect.threw", "afterCollect.threw"}
                    => ReportedWith(r, Null)
            /\ f.ev = "handle.threw" =>
                /\ (config.retry = Null \/ Vetoed(lastError[1])) =>
                        (InstanceOf(f.arg, "PluginError") /\ ReportedWith(r, <<"handler">>))
                /\ InstanceOf(f.arg, "PluginError") => ReportedWith(r, <<"handler">>)
                /\ ~InstanceOf(f.arg, "PluginError") =>
                        (config.retry # Null /\ ReportedWith(r, Null))

\* C20 witness: without retry, the second of three handlers failed and the
\* error hook got the PluginError naming it with phase "handler".
C20_Witness ==
    \E r \in DOMAIN runs :
        /\ config.retry = Null
        /\ config.handlers = <<"H1", "H2", "H3">>
        /\ Failed(r)
        /\ \E k \in Places(runs[r].log, "error") :
                /\ runs[r].log[k].arg.phase = <<"handler">>
                /\ runs[r].log[k].arg.error.pluginName = "H2"
                /\ runs[r].log[k].arg.error.phase = "handle"

\* The executions that returned an item.
ReturnedRuns == {r \in DOMAIN runs : Done(r) /\ runs[r].outcome.kind = "return"}
\* The id generateId() gave the item of run r.
BuildId(r) == Entries(runs[r].log, "build")[1].arg
\* The collect() calls that got an item, each with the execution it came
\* from: without debounce a call is an execution, with debounce a call is
\* settled by the execution of its batch.
Collected ==
    IF config.debounce = Null
    THEN {<<r, r>> : r \in ReturnedRuns}
    ELSE {<<c, promises[c].value[2]>> :
            c \in {d \in DOMAIN promises : promises[d].state = "resolved"}}
\* The item collect() call `call` of Collected got.
ItemOf(call) == runs[call[2]].outcome.value
\* No transformer of run r returned an item with another id or type than the
\* constructed item's.
KeptByTransformers(r) ==
    \A k \in Places(runs[r].log, "transform.returned") :
        /\ runs[r].log[k].arg.id = BuildId(r)
        /\ runs[r].log[k].arg.type = config.type

\* C21 as stated: whatever the transformers and the debounce, an item
\* returned by collect() has the configured type and an id no other collect()
\* call got.
C21_TypeAndFreshIdAlways ==
    \A c1 \in Collected :
        /\ ItemOf(c1).type = config.type
        /\ \A c2 \in Collected : c2[1] # c1[1] => ItemOf(c2).id # ItemOf(c1).id

\* C21: every execution constructs its item with the configured type and an
\* id of its own. A successful collect() returns the item of its execution,
\* so, unless a transformer returned an item with another type or id, the
\* type is the configured one and the id differs from the id of every item
\* returned by another execution; the calls the debouncer coalesced into one
\* execution all get the same item.
C21_TypeAndIdPerExecution ==
    /\ \A r \in DOMAIN runs :
        Places(runs[r].log, "build") # {} =>
            /\ Len(Entries(runs[r].log, "build")) = 1
            /\ \A r2 \in DOMAIN runs :
                    (r2 # r /\ Places(runs[r2].log, "build") # {}) => BuildId(r2) # BuildId(r)
    /\ \A c1 \in Collected :
        /\ c1[2] \in ReturnedRuns
        /\ KeptByTransformers(c1[2]) =>
            /\ ItemOf(c1).type = config.type
            /\ ItemOf(c1).id = BuildId(c1[2])
            /\ \A c2 \in Collected :
                    (c2[2] # c1[2] /\ KeptByTransformers(c2[2])) => ItemOf(c2).id # ItemOf(c1).id
        /\ \A c2 \in Collected : c2[2] = c1[2] => ItemOf(c2) = ItemOf(c1)

\* C21 witness: two collect() calls on a collector with a transformer that
\* leaves id and type alone both returned; the items have the configured type
\* and different ids.
C21_Witness ==
    /\ config.transformers = <<"T">>
    /\ Collected = {<<1, 1>>, <<2, 2>>}
    /\ KeptByTransformers(1) /\ KeptByTransformers(2)
    /\ runs[1].outcome.value.marks = <<"T">>
    /\ runs[1].outcome.value.type = FeedbackType
    /\ runs[1].outcome.value.id # runs[2].outcome.value.id

\* The item as executeCollection constructed it, before any transformer.
Constructed(run) ==
    IF Places(run.log, "transform") # {}
    THEN Entries(run.log, "transform")[1].arg
    ELSE run.item[1]
\* Object `merged` is the shallow merge of `defaults` and `perCall`: it has the
\* keys of either, the per-call value on a per-call key, the default otherwise.
IsShallowMerge(merged, defaults, perCall) ==
    /\ DOMAIN merged = DOMAIN defaults \cup DOMAIN perCall
    /\ \A k \in DOMAIN perCall : merged[k] = perCall[k]
    /\ \A k \in DOMAIN defaults \ DOMAIN perCall : merged[k] = defaults[k]

\* C22: metadata merge. The metadata of the item an execution constructs is
\* the shallow merge of the configured defaultMetadata and the metadata passed
\* to the call: every key of either is present, a key of both has the per-call
\* value. Every before-collect hook is given that same metadata in its context.
C22_MetadataMerge ==
    \A r \in DOMAIN runs :
        /\ \A k \in Places(runs[r].log, "beforeCollect") :
                IsShallowMerge(runs[r].log[k].arg.metadata,
                               config.defaultMetadata, runs[r].callMetadata)
        /\ Places(runs[r].log, "build") # {} =>
            /\ IsShallowMerge(Constructed(runs[r]).metadata,
                              config.defaultMetadata, runs[r].callMetadata)
            /\ \A k \in Places(runs[r].log, "beforeCollect") :
                    runs[r].log[k].arg.metadata = Constructed(runs[r]).metadata
\* An item was built from defaults and per-call metadata that share a key with
\* different values and each have a key of their own, after a before-collect
\* hook saw the context.
C22_Witness ==
    \E r \in DOMAIN runs :
        /\ Places(runs[r].log, "build") # {}
        /\ Places(runs[r].log, "beforeCollect") # {}
        /\ \E k \in DOMAIN config.defaultMetadata \cap DOMAIN runs[r].callMetadata :
                config.defaultMetadata[k] # runs[r].callMetadata[k]
        /\ DOMAIN config.defaultMetadata \ DOMAIN runs[r].callMetadata # {}
        /\ DOMAIN runs[r].callMetadata \ DOMAIN config.defaultMetadata # {}

\* The names of the plugins of type `type` passed to use(), in call order.
UsedOfType(type) ==
    LET RECURSIVE Names(_)
        Names(k) == IF k = 0 THEN <<>>
                    ELSE IF useLog[k].plugin.type = type
                         THEN Append(Names(k - 1), useLog[k].plugin.name)
                         ELSE Names(k - 1)
    IN Names(Len(useLog))
\* What the constructor registered before any use() of the caller.
Preregistered == IF config.schema THEN <<"zod-validator">> ELSE <<>>

\* C23: use(plugin). Each list of the registry holds the plugins of its type in
\* the order they were passed to use(), every one of them, repeated ones
\* included; an install hook is invoked once per use() of a plugin that has
\* one and never otherwise; use() throws exactly when the install hook threw,
\* and then a PluginError with the plugin's name and phase "install".
C23_UseRegistersAndInstalls ==
    /\ config.validators = Preregistered \o UsedOfType("validator")
    /\ config.transformers = UsedOfType("transformer")
    /\ config.handlers = UsedOfType("handler")
    /\ \A k \in DOMAIN useLog :
        /\ useLog[k].installs = IF useLog[k].plugin.install = "absent" THEN 0 ELSE 1
        /\ useLog[k].plugin.install = "throws" =>
                /\ useLog[k].outcome.kind = "throw"
                /\ InstanceOf(useLog[k].outcome.error, "PluginError")
                /\ useLog[k].outcome.error.pluginName = useLog[k].plugin.name
                /\ useLog[k].outcome.error.phase = "install"
        /\ useLog[k].plugin.install # "throws" => useLog[k].outcome.kind = "return"
\* The same plugin was used twice and is registered twice, a plugin of another
\* type was used in between, and an install hook threw.
C23_Witness ==
    /\ Len(useLog) = 3
    /\ useLog[1].plugin.name = useLog[3].plugin.name
    /\ useLog[1].plugin.type = "handler" /\ useLog[3].plugin.type = "handler"
    /\ useLog[2].plugin.type = "validator"
    /\ useLog[2].plugin.install = "throws"
    /\ useLog[3].plugin.install = "returns"
    /\ Len(config.handlers) = 2

\* The smaller of two numbers.
Min(a, b) == IF a < b THEN a ELSE b
\* The last n entries of a sequence, in order.
MostRecent(seq, n) == [k \in 1..n |-> seq[Len(seq) - n + k]]
\* What the handler stores is what the bound allows of what it handled.
StoresWithinBound ==
    /\ maxItems > 0 =>
        /\ Len(items) <= maxItems
        /\ items = MostRecent(handled, Min(maxItems, Len(handled)))
    /\ maxItems = 0 => items = handled

\* C24: MemoryHandler bound. With maxItems = N > 0 the handler stores at most N
\* items, and they are the min(N, k) most recently handled ones in arrival
\* order, k being the number of handle() calls since construction or the last
\* clear(); with maxItems = 0 it stores every handled item; clear() leaves
\* nothing stored.
C24_MemoryHandlerBound ==
    /\ []StoresWithinBound
    /\ [][(handled' = <<>> /\ handled # <<>>) => Len(items') = 0]_vars
\* A handler with a limit of 2 has handled 4 items, the later ones other than
\* the earlier ones, and holds the last two.
C24_Witness ==
    /\ maxItems = 2
    /\ Len(handled) = 4
    /\ handled[1] # handled[3]
    /\ handled[2] # handled[4]
    /\ items = <<handled[3], handled[4]>>

\* The executions whose wrapped operation has been invoked and has not settled.
InFlight == {e \in DOMAIN execs : execs[e].outcome = "inflight"}
\* Promise c was settled with what execution e produced.
SettledBy(table, c, e) ==
    /\ table[c].state # "pending"
    /\ table[c].value \in {FnResult(e), FnError(e)}
\* A step leaves execution e, in flight before it, as it was: the arguments
\* and the batch are the same, the waiters are settled by e settling only, and
\* a call made in the step is not of e's batch and not settled by e.
LeavesInFlight(e) ==
    /\ e \in DOMAIN execs'
    /\ execs'[e].args = execs[e].args
    /\ execs'[e].waiters = execs[e].waiters
    /\ execs'[e].outcome = "inflight" =>
            \A c \in Range(execs[e].waiters) : promises'[c] = promises[c]
    /\ \A c \in DOMAIN calls' \ DOMAIN calls :
            /\ c \notin Range(execs'[e].waiters)
            /\ ~SettledBy(promises', c, e)

\* C25: in-flight isolation. When an execution starts, the pending arguments,
\* the waiter list, the leading flag and both timers are cleared; from then on
\* no call(), flush() or cancel() changes the arguments the execution runs
\* with or settles its waiters; a call() made while it is in flight is not of
\* its batch, and a promise settled with an execution's result is always one
\* of that execution's batch.
C25_InFlightIsolation ==
    /\ [](\A c \in DOMAIN promises, e \in DOMAIN execs :
                SettledBy(promises, c, e) => c \in Range(execs[e].waiters))
    /\ [][ /\ Len(execs') > Len(execs) =>
                /\ lastArgs' = Null
                /\ pendingPromises' = <<>>
                /\ leadingExecuted' = FALSE
                /\ timeoutId' = Null
                /\ maxWaitTimeoutId' = Null
           /\ \A e \in InFlight : LeavesInFlight(e) ]_vars
\* Execution 1 is still in flight with its waiter unsettled, a call made after
\* it started was rejected by cancel(), and a third call was served by a later
\* execution that has returned.
C25_Witness ==
    /\ Len(execs) = 2
    /\ execs[1].outcome = "inflight"
    /\ execs[1].waiters = <<1>>
    /\ promises[1].state = "pending"
    /\ promises[2] = Rejected(CancelError)
    /\ execs[2].waiters = <<3>>
    /\ promises[3] = Resolved(FnResult(2))

\* withRetry has returned or thrown.
RetryDone == rPc \in {"returned", "threw"}
\* An onRetry call threw, which ended withRetry.
OnRetryFailed == rOutcome # Null /\ rOutcome.kind = "throw" /\ rOutcome.error = HookError
\* The calls of retry hooks a run made for the onRetry of try k, in order.
HookCallsFor(r, k) == SelectSeq(runs[r].retryCalls, LAMBDA c : c.attempt = k)
\* The k-th onRetry call is for the failed try k, which was not the last
\* allowed one and not vetoed, and carries a delay calculateDelay yields for it.
OnRetryIsFor(k) ==
    /\ onRetryLog[k].attempt = k
    /\ k < rOptions.attempts
    /\ fnLog[k].state = "threw"
    /\ ~VetoedTry(k)
    /\ \E rnd \in RandomChoices :
            onRetryLog[k].delay = CalculateDelay(k, rOptions.baseDelay, rOptions.maxDelay,
                                                 rOptions.backoff, rnd)
\* onRetry, the delay and the next try follow one another: a delay starts
\* when its onRetry call has completed and is the delay passed to it, and a
\* further try starts when the delay is over.
OnRetryThenDelayThenTry ==
    /\ Len(sleepLog) <= Len(fnLog)
    /\ Len(fnLog) <= Len(sleepLog) + 1
    /\ rPc = "sleep" => Len(fnLog) = Len(sleepLog)
    /\ rOptions.onRetry =>
        /\ Len(sleepLog) <= Len(onRetryLog)
        /\ Len(onRetryLog) <= Len(sleepLog) + 1
        /\ rPc = "onRetry" => Len(onRetryLog) = Len(sleepLog) + 1
        /\ \A k \in DOMAIN sleepLog : sleepLog[k] = onRetryLog[k].delay
        /\ \A k \in DOMAIN fnLog :
                (fnLog[k].state = "threw" /\ k < rOptions.attempts /\ ~VetoedTry(k))
                    => k \in DOMAIN onRetryLog
\* The retry hooks a collector calls for its k-th onRetry are the registered
\* ones from the first on, in registration order, each with the arguments of
\* that onRetry.
HooksInOrderFor(r, k) ==
    LET cs == HookCallsFor(r, k)
    IN /\ Len(cs) <= config.retryHooks
       /\ \A j \in DOMAIN cs :
            /\ cs[j].hook = j
            /\ cs[j].error = onRetryLog[k].error
            /\ cs[j].delay = onRetryLog[k].delay
       /\ \A j, j2 \in DOMAIN runs[r].retryCalls :
            j < j2 => runs[r].retryCalls[j].attempt <= runs[r].retryCalls[j2].attempt

\* C26 as stated: onRetry gets the error of the failed try as it was thrown;
\* a finished run without veto made one onRetry call less than tries; a
\* collector calls every registered retry hook for every onRetry call that
\* has ended.
C26_OnRetryAsStated ==
    /\ \A k \in DOMAIN onRetryLog :
        /\ OnRetryIsFor(k)
        /\ onRetryLog[k].error = fnLog[k].thrown[1]
    /\ OnRetryThenDelayThenTry
    /\ (RetryDone /\ rOptions.onRetry /\ \A k \in DOMAIN fnLog : ~VetoedTry(k))
            => Len(onRetryLog) = Len(fnLog) - 1
    /\ \A r \in DOMAIN runs : \A k \in DOMAIN onRetryLog :
        /\ HooksInOrderFor(r, k)
        /\ (k < Len(onRetryLog) \/ rPc # "onRetry")
                => Len(HookCallsFor(r, k)) = config.retryHooks

\* C26: onRetry protocol. The k-th onRetry call is made after the failed try
\* k, with k below `attempts` and no veto, and gets k, that try's error as an
\* Error (the thrown value if it is one, else a new Error of it) and the
\* computed delay; every such failed try has its onRetry call; the delay
\* starts when onRetry has completed and the next try when the delay is over;
\* a finished run of at least one try without veto in which no onRetry call
\* threw made one onRetry call less than tries. A collector calls its retry
\* hooks in registration order inside each onRetry, all of them unless one
\* throws.
C26_OnRetryProtocol ==
    /\ \A k \in DOMAIN onRetryLog :
        /\ OnRetryIsFor(k)
        /\ onRetryLog[k].error = ToError(fnLog[k].thrown[1])
    /\ OnRetryThenDelayThenTry
    /\ (/\ RetryDone /\ rOptions.onRetry /\ Len(fnLog) >= 1 /\ ~OnRetryFailed
        /\ \A k \in DOMAIN fnLog : ~VetoedTry(k))
            => Len(onRetryLog) = Len(fnLog) - 1
    /\ \A r \in DOMAIN runs : \A k \in DOMAIN onRetryLog :
        /\ HooksInOrderFor(r, k)
        /\ (k <= Len(sleepLog)) => Len(HookCallsFor(r, k)) = config.retryHooks
\* A collector with two retry hooks made three tries of its handler stage,
\* all failed: two onRetry calls, each with both hooks called, two delays.
C26_Witness ==
    /\ config # Null
    /\ config.retryHooks = 2
    /\ rPc = "threw"
    /\ Len(fnLog) = 3
    /\ Len(onRetryLog) = 2
    /\ Len(sleepLog) = 2
    /\ \E r \in DOMAIN runs : Len(runs[r].retryCalls) = 4

\* The schema check of run r was made and reported the data invalid.
SchemaRejected(r) ==
    /\ config.schema
    /\ Places(runs[r].log, "schema") # {}
    /\ ~ValidateWithSchema(runs[r].data).valid
\* After the failed schema check of run r no validator plugin was invoked, and
\* what validate() returned, and executeCollection threw on, is the schema's
\* result; nothing of the later stages ran.
SchemaResultOnly(r) ==
    /\ Places(runs[r].log, "validate") = {}
    /\ Places(runs[r].log, "runValidators.returned") = {}
    /\ \A k \in DOMAIN runs[r].log : StageOf(runs[r].log[k].ev) \in {1, 2, 7}
    /\ runs[r].item = Null
    /\ runs[r].error = << ValidationError(ValidateWithSchema(runs[r].data).errors) >>

SchemaChecks(r) ==
    Len(Entries(runs[r].log, "schema"))
    + Cardinality({k \in Places(runs[r].log, "validate") :
                        config.validators[runs[r].log[k].i] = "zod-validator"})

\* C28: the configured schema check is invoked exactly once per validate()
\* call, so once per execution that gets to validation, and before any
\* validator plugin is invoked.
C28_SchemaCheckedOnce ==
    \A r \in DOMAIN runs :
        (config.schema /\ Places(runs[r].log, "schema") # {}) =>
            /\ SchemaChecks(r) = 1
            /\ \A k \in Places(runs[r].log, "schema"), j \in Places(runs[r].log, "validate") :
                    k < j

\* Error `err` is the PluginError for plugin `name` failing in `phase`.
IsPluginFault(err, name, phase) ==
    /\ InstanceOf(err, "PluginError")
    /\ err.pluginName = name
    /\ err.phase = phase
\* The cause carried by `err` is the thrown value x as an Error: x itself if
\* it is an Error, else a new Error with its text.
CauseIsErrorOf(err, x) ==
    /\ err.cause.isError
    /\ err.cause.msg = x.msg
    /\ InstanceOfError(x) => err.cause = x
\* The plugins of a sequential stage of run r that threw (`ev`, `names`,
\* `phase`): each ended the stage, no plugin registered after it was invoked,
\* and the stage threw the PluginError of that plugin whose cause satisfies
\* `Carries`.
FaultEndsStage(r, ev, names, phase, Carries(_, _)) ==
    LET log == runs[r].log IN
    \A k \in Places(log, ev \o ".threw") :
        /\ runs[r].error # Null
        /\ IsPluginFault(runs[r].error[1], names[log[k].i], phase)
        /\ Carries(runs[r].error[1], log[k].arg)
        /\ \A j \in Places(log, ev) : log[j].i <= log[k].i
        /\ \A j \in DOMAIN log : j > k => StageOf(log[j].ev) = 7
\* A handler stage of the collector that failed did so with the PluginError
\* of a handler that failed in it.
HandlerFaultWrapped ==
    /\ \A r \in DOMAIN runs : \A k \in Places(runs[r].log, "handle.threw") :
            config.retry = Null =>
                \E h \in DOMAIN config.handlers :
                    /\ stages[runs[r].stage].calls[h] = "failed"
                    /\ IsPluginFault(runs[r].log[k].arg, config.handlers[h], "handle")
                    /\ runs[r].log[k].arg.cause.isError
    /\ \A k \in DOMAIN fnLog :
            (config # Null /\ fnLog[k].state = "threw") =>
                \E h \in DOMAIN config.handlers :
                    IsPluginFault(fnLog[k].thrown[1], config.handlers[h], "handle")
\* runHandlers with parallel: false: the handler that threw ended the call
\* with its PluginError, whose cause satisfies `Carries`, and no handler
\* registered after it was invoked.
SequentialFaultEndsStage(Carries(_, _)) ==
    \A s \in DOMAIN stages :
        stages[s].run = 0 =>
            \A h \in DOMAIN stages[s].calls :
                stages[s].calls[h] = "failed" =>
                    /\ stages[s].outcome.kind = "throw"
                    /\ IsPluginFault(stages[s].outcome.error, config.handlers[h], "handle")
                    /\ Carries(stages[s].outcome.error, stages[s].thrown[1])
                    /\ \A g \in DOMAIN stages[s].calls :
                            g > h => stages[s].calls[g] = "notStarted"
\* The cause carried by `err` is the thrown value x itself.
CauseIsThrown(err, x) == err.cause = x

\* C29 as stated: the PluginError carries the value the plugin threw.
C29_CauseIsThrownValue ==
    /\ \A r \in DOMAIN runs :
        /\ FaultEndsStage(r, "validate", config.validators, "validate", CauseIsThrown)
        /\ FaultEndsStage(r, "transform", config.transformers, "transform", CauseIsThrown)
    /\ HandlerFaultWrapped
    /\ SequentialFaultEndsStage(CauseIsThrown)

\* C29: plugin fault wrapping. A validator, transformer or handler that throws
\* or rejects makes its stage fail with a PluginError that carries the
\* plugin's name, the phase "validate", "transform" or "handle", and as cause
\* the thrown value as an Error (the value itself if it is an Error, a new
\* Error of it otherwise); among validators, among transformers and among
\* handlers run one at a time, no plugin registered after the failing one is
\* invoked.
C29_PluginFaultWrapping ==
    /\ \A r \in DOMAIN runs :
        /\ FaultEndsStage(r, "validate", config.validators, "validate", CauseIsErrorOf)
        /\ FaultEndsStage(r, "transform", config.transformers, "transform", CauseIsErrorOf)
    /\ HandlerFaultWrapped
    /\ SequentialFaultEndsStage(CauseIsErrorOf)
\* Three handlers run one at a time: the first resolved, the second threw a
\* value that is not an Error, the third was never invoked.
C29_Witness ==
    \E s \in DOMAIN stages :
        /\ stages[s].run = 0
        /\ stages[s].calls = <<"ok", "failed", "notStarted">>
        /\ ~InstanceOfError(stages[s].thrown[1])
        /\ stages[s].outcome.kind = "throw"

\* The item executeCollection constructs in run r.
ConstructedItem(r) ==
    [id |-> BuildId(r), type |-> config.type, data |-> runs[r].data,
     metadata |-> runs[r].metadata, timestamp |-> runs[r].timestamp, marks |-> <<>>]
\* The transformers of run r were invoked in registration order, one at a
\* time, the first with the constructed item and each later one with what the
\* one before it returned.
TransformersChained(r) ==
    LET log == runs[r].log
        ts == Entries(log, "transform")
        rs == Entries(log, "transform.returned")
    IN /\ Len(ts) <= Len(config.transformers)
       /\ \A j \in DOMAIN ts :
            /\ ts[j].i = j
            /\ ts[j].arg = IF j = 1 THEN ConstructedItem(r) ELSE rs[j - 1].arg
       /\ \A k \in Places(log, "transform") :
            log[k].i > 1 => (log[k - 1].ev = "transform.returned" /\ log[k - 1].i = log[k].i - 1)
       /\ \A j \in DOMAIN rs : rs[j].i = j
\* The transformer stage of run r is over and left item `final`.
TransformedTo(r, final) ==
    LET rs == Entries(runs[r].log, "transform.returned")
    IN /\ Places(runs[r].log, "build") # {}
       /\ Len(rs) = Len(config.transformers)
       /\ final = IF rs = <<>> THEN ConstructedItem(r) ELSE Last(rs).arg
\* Item `final` is what run r hands to the handlers and the after-collect
\* hooks and returns.
PassedOn(r, final) ==
    /\ runs[r].item = <<final>>
    /\ \A s \in StagesOf(r) : stages[s].item = final
    /\ \A k \in Places(runs[r].log, "handle") : runs[r].log[k].arg = final
    /\ \A k \in Places(runs[r].log, "afterCollect") : runs[r].log[k].arg = final
    /\ (Done(r) /\ runs[r].outcome.kind = "return") => runs[r].outcome.value = final

\* C30: transformer chaining. Transformers run one at a time in registration
\* order, the first on the constructed item and each later one on exactly what
\* the previous one returned; what the last one returns, as it is, is the item
\* given to every handler and after-collect hook and returned by collect; with
\* no transformer that item is the constructed one.
C30_TransformerChaining ==
    \A r \in DOMAIN runs :
        /\ TransformersChained(r)
        /\ \A k \in Places(runs[r].log, "transform.returned") :
                TransformedTo(r, runs[r].log[k].arg) => PassedOn(r, runs[r].log[k].arg)
        /\ TransformedTo(r, ConstructedItem(r)) => PassedOn(r, ConstructedItem(r))
        /\ (Places(runs[r].log, "handle") # {} \/ Places(runs[r].log, "afterCollect") # {}
            \/ (Done(r) /\ runs[r].outcome.kind = "return"))
                => \E final \in {ConstructedItem(r)}
                        \cup {runs[r].log[k].arg : k \in Places(runs[r].log, "transform.returned")} :
                      TransformedTo(r, final)
\* Two transformers ran: the first marked the item, the second returned an
\* object of its own, and that object went to the handler and the
\* after-collect hook and was returned.
C30_Witness ==
    \E r \in DOMAIN runs :
        /\ Len(config.transformers) = 2
        /\ Done(r)
        /\ runs[r].outcome.kind = "return"
        /\ Entries(runs[r].log, "transform.returned")[1].arg = Transformed(ConstructedItem(r), "T")
        /\ runs[r].outcome.value = Replaced(Transformed(ConstructedItem(r), "T"), "U")
        /\ Places(runs[r].log, "handle") # {}
        /\ Places(runs[r].log, "afterCollect") # {}

\* C31: debouncer state invariant. Between operations the buffered arguments
\* are present iff the waiter list is not empty iff the quiet-period timer is
\* armed; the deadline timer is armed only while the quiet-period timer is;
\* `pending` is true exactly in those states. So no waiter is queued without a
\* timer that will execute its batch.
C31_DebouncerStateInvariant ==
    /\ (lastArgs # Null) <=> (pendingPromises # <<>>)
    /\ (pendingPromises # <<>>) <=> (timeoutId # Null)
    /\ (maxWaitTimeoutId # Null) => (timeoutId # Null)
    /\ Pending <=> (timeoutId # Null)
    /\ \A k \in DOMAIN pendingPromises : promises[pendingPromises[k]].state = "pending"
\* A batch of two callers is buffered with both timers armed, after an earlier
\* batch was executed and the debouncer had gone back to idle.
C31_Witness ==
    /\ Pending
    /\ Len(pendingPromises) = 2
    /\ timeoutId # Null
    /\ maxWaitTimeoutId # Null
    /\ Len(execs) = 1

\* The attempts of run r's handler stage in which handler h was invoked.
InvokedIn(r, h) ==
    {s \in StagesOf(r) : stages[s].calls[h] \in {"inflight", "ok", "failed"}}

\* C32: with retry configured every attempt of the handler stage invokes every
\* registered handler with the item, those that completed in an earlier
\* attempt included: a handler is invoked once per attempt made, so up to
\* `attempts` times in one execution, and again after it succeeded when a
\* fault of another handler leads to a retry.
C32_RetryReinvokesAllHandlers ==
    \A r \in DOMAIN runs :
        config.retry # Null =>
            /\ Cardinality(StagesOf(r)) = Len(fnLog)
            /\ Cardinality(StagesOf(r)) <= config.retry[1].attempts
            /\ \A s \in StagesOf(r) :
                /\ stages[s].started = config.handlers
                /\ stages[s].item = runs[r].item[1]
            /\ \A h \in DOMAIN config.handlers :
                /\ InvokedIn(r, h) = StagesOf(r)
                /\ \A s, s2 \in StagesOf(r) :
                        (s < s2 /\ stages[s].calls[h] = "ok") => s2 \in InvokedIn(r, h)
\* In the first attempt H1 completed and H2 failed; the retry invoked H1 again,
\* which makes as many invocations of H1 as attempts are allowed.
C32_Witness ==
    \E r \in DOMAIN runs : \E s, s2 \in StagesOf(r) :
        /\ config.retry # Null
        /\ s < s2
        /\ stages[s].calls[1] = "ok"
        /\ stages[s].calls[2] = "failed"
        /\ stages[s2].calls[1] \in {"inflight", "ok"}
        /\ Cardinality(InvokedIn(r, 1)) = config.retry[1].attempts

\* Every allowed attempt of the handler stage was made and failed, none vetoed.
AllAttemptsFailed ==
    /\ config.retry # Null
    /\ config.retry[1].attempts >= 1
    /\ Len(fnLog) = config.retry[1].attempts
    /\ \A k \in DOMAIN fnLog : fnLog[k].state = "threw" /\ ~VetoedTry(k)
\* The RetryExhaustedError for the failure of the final attempt.
Exhausted == RetryExhaustedError(config.retry[1].attempts, <<Last(fnLog).thrown[1]>>)
\* withRetry threw the RetryExhaustedError that carries the PluginError of
\* phase handle of the final attempt, and the error hooks invoked for run r
\* got it with no phase.
ExhaustedReported(r) ==
    /\ rOutcome = Threw(Exhausted)
    /\ InstanceOf(Exhausted, "RetryExhaustedError")
    /\ InstanceOf(Exhausted.lastError, "PluginError")
    /\ Exhausted.lastError.phase = "handle"
    /\ Exhausted.lastError = StageFault(runs[r].stage)
    /\ \A k \in Places(runs[r].log, "handle.threw") :
            runs[r].log[k].arg = Exhausted /\ runs[r].error = <<Exhausted>>
    /\ \A k \in Places(runs[r].log, "error") :
            runs[r].log[k].arg = [error |-> Exhausted, phase |-> Null]

Unsettled(s) == {h \in DOMAIN stages[s].calls : stages[s].calls[h] = "inflight"}
\* The attempt of run r that withRetry awaits has a fault while other handlers
\* of the attempt are still in flight.
FailedWithInFlight(r) ==
    /\ config.parallel
    /\ config.retry # Null
    /\ Awaiting(r, "handlers")
    /\ rPc = "fn"
    /\ runs[r].stage # 0
    /\ stages[runs[r].stage].fault # Null
    /\ Unsettled(runs[r].stage) # {}

\* C34: with parallel handlers and retry configured, withRetry takes the
\* failure of an attempt as soon as one handler has failed, whichever handlers
\* of the attempt are still in flight, and the start of the next attempt
\* leaves the invocations of the earlier attempts as they are, in flight
\* included; an invocation of an earlier attempt that settles afterwards
\* changes nothing of the execution.
C34_RetryDoesNotAwaitInFlight ==
    /\ [](\A r \in DOMAIN runs : FailedWithInFlight(r) => ENABLED AttemptRejects(r))
    /\ [][/\ Len(stages') > Len(stages) =>
                \A s \in DOMAIN stages : stages'[s] = stages[s]
          /\ \A s \in DOMAIN stages :
                (s \in DOMAIN stages' /\ stages'[s].late # stages[s].late) =>
                    runs' = runs /\ rOutcome' = rOutcome]_vars
\* The execution is over, and a handler invoked by an earlier attempt settled
\* only after that, so it was in flight while a later attempt invoked the
\* same handler with the same item.
C34_Witness ==
    \E r \in DOMAIN runs : \E s, t \in StagesOf(r) : \E h \in DOMAIN stages[s].calls :
        /\ config.parallel
        /\ config.retry # Null
        /\ Done(r)
        /\ s < t
        /\ h \in stages[s].late
        /\ stages[t].calls[h] \in {"inflight", "ok", "failed"}
        /\ stages[t].item = stages[s].item

\* The last onRetry call has ended and no delay was started after it: the
\* call threw.
OnRetryEndedEarly == rPc # "onRetry" /\ Len(onRetryLog) = Len(sleepLog) + 1

\* C35: when onRetry throws, withRetry is over at once: the delay computed for
\* that onRetry is not waited, the failed try stays the last one, and withRetry
\* throws what onRetry threw, which is neither the error of the try nor a
\* RetryExhaustedError. In a collector the retry hooks registered after the
\* one that threw are not called, and the catch block of executeCollection
\* gets what the hook threw.
C35_OnRetryThrowStops ==
    OnRetryEndedEarly =>
        /\ rPc = "threw"
        /\ rOutcome = Threw(HookError)
        /\ Len(fnLog) = Len(onRetryLog)
        /\ Last(fnLog).state = "threw"
        /\ Len(sleepLog) = Len(fnLog) - 1
        /\ HookError # ToError(Last(fnLog).thrown[1])
        /\ HookError # Last(fnLog).thrown[1]
        /\ ~InstanceOf(HookError, "RetryExhaustedError")
        /\ config # Null =>
            \A r \in DOMAIN runs :
                /\ runs[r].retryCalls # <<>> =>
                    /\ Last(runs[r].retryCalls).attempt = Len(onRetryLog)
                    /\ Len(HookCallsFor(r, Len(onRetryLog))) = Last(runs[r].retryCalls).hook
                    /\ Last(runs[r].retryCalls).hook <= config.retryHooks
                /\ \A k \in Places(runs[r].log, "handle.threw") :
                    runs[r].log[k].arg = HookError /\ runs[r].error = <<HookError>>
\* The first of two retry hooks threw after the first failed try of three
\* allowed: the second hook was not called, no delay and no second try
\* followed, and withRetry threw the hook's error to executeCollection.
C35_Witness ==
    /\ OnRetryEndedEarly
    /\ config # Null
    /\ config.retryHooks = 2
    /\ config.retry[1].attempts = 3
    /\ Len(fnLog) = 1
    /\ sleepLog = <<>>
    /\ \E r \in DOMAIN runs :
        /\ Len(runs[r].retryCalls) = 1
        /\ Places(runs[r].log, "handle.threw") # {}
        /\ runs[r].error = <<HookError>>

\* The handler stage of run r is complete: every registered handler was
\* invoked with the item of the run and resolved, in the attempt that ended
\* the stage.
HandledAll(r) ==
    Len(config.handlers) > 0 =>
        /\ runs[r].stage # 0
        /\ AllHandled(runs[r].stage)
        /\ stages[runs[r].stage].item = runs[r].item[1]
        /\ stages[runs[r].stage].started = config.handlers
\* After-collect hook log[k].i of run r threw: no later after-collect hook was
\* called, only error hooks follow, and the handler stage stays complete.
AfterThrowEnds(r, k) ==
    LET log == runs[r].log IN
    /\ Len(Entries(log, "afterCollect")) = log[k].i
    /\ \A j \in DOMAIN log : j > k => log[j].ev \in {"error", "error.returned", "error.threw"}
    /\ runs[r].error = <<log[k].arg>>
    /\ HandledAll(r)
    /\ ~(Done(r) /\ runs[r].outcome.kind = "return")

FailedInstalls == {k \in DOMAIN useLog : useLog[k].outcome.kind = "throw"}
\* The list of the registry for plugins of type `type`.
ListOf(type) ==
    CASE type = "validator" -> config.validators
      [] type = "transformer" -> config.transformers
      [] type = "handler" -> config.handlers
\* The log of run r before the step, empty when the step starts the run.
LogBefore(r) == IF r \in DOMAIN runs THEN runs[r].log ELSE <<>>
\* The step takes run r past the validators: the item is built in it.
PassesValidation(r) ==
    /\ runs'[r].item # Null
    /\ r \in DOMAIN runs => runs[r].item = Null
\* The step takes run r past the transformers without a failure.
PassesTransformers(r) ==
    /\ runs'[r].item # Null
    /\ runs'[r].error = Null
    /\ runs'[r].pc # "transform"
    /\ r \in DOMAIN runs => (runs[r].item = Null \/ runs[r].pc = "transform")

\* C37: use() registers the plugin and a throwing install hook does not take
\* it off again: every list of the registry holds the plugins of its type
\* passed to use(), those whose use() threw the PluginError of phase install
\* included, in call order. The stages run what is registered: an execution
\* that gets past the validators has invoked every registered validator once,
\* one that gets past the transformers every registered transformer once, and
\* every attempt of the handler stage invokes every registered handler.
C37_FailedInstallStaysRegistered ==
    /\ [](/\ config.validators = Preregistered \o UsedOfType("validator")
          /\ config.transformers = UsedOfType("transformer")
          /\ config.handlers = UsedOfType("handler")
          /\ \A k \in FailedInstalls :
                /\ useLog[k].plugin.install = "throws"
                /\ InstanceOf(useLog[k].outcome.error, "PluginError")
                /\ useLog[k].outcome.error.phase = "install"
                /\ useLog[k].plugin.name \in Range(ListOf(useLog[k].plugin.type)))
    /\ [][/\ \A r \in DOMAIN runs' :
                /\ PassesValidation(r) =>
                        \A i_ \in 1..Len(config.validators) :
                            Times(runs'[r].log, "validate", i_) = 1
                /\ PassesTransformers(r) =>
                        \A i_ \in 1..Len(config.transformers) :
                            Times(runs'[r].log, "transform", i_) = 1
          /\ Len(stages') > Len(stages) =>
                /\ stages'[Len(stages')].started = config.handlers
                /\ DOMAIN stages'[Len(stages')].calls = DOMAIN config.handlers]_vars
\* use() of a validator and use() of a handler both threw on install, nothing
\* else was registered, and a collect() made afterwards invoked that validator
\* and that handler and returned its item.
C37_Witness ==
    /\ Len(useLog) = 2
    /\ FailedInstalls = {1, 2}
    /\ useLog[1].plugin.type = "validator"
    /\ useLog[2].plugin.type = "handler"
    /\ config.validators = <<"A">>
    /\ config.handlers = <<"H1">>
    /\ \E r \in DOMAIN runs :
        /\ Done(r)
        /\ runs[r].outcome.kind = "return"
        /\ Times(runs[r].log, "validate", 1) = 1
        /\ runs[r].stage # 0
        /\ stages[runs[r].stage].started = <<"H1">>
        /\ stages[runs[r].stage].calls[1] = "ok"

\* The names of the error classes of utils/errors.ts.
LibraryErrors ==
    {"FeedbackError", "ValidationError", "PluginError", "CollectionCancelledError",
     "RetryExhaustedError"}

\* C38: with attempts <= 0 withRetry never invokes the operation, calls no
\* onRetry and waits no delay, and throws the TypeError raised while the
\* RetryExhaustedError was being built without a last error: not a
\* RetryExhaustedError and none of the library's errors.
C38_NoAttemptsThrowsForeignError ==
    (rOptions.attempts <= 0 /\ rPc # "start") =>
        /\ rPc = "threw"
        /\ fnLog = <<>>
        /\ onRetryLog = <<>>
        /\ sleepLog = <<>>
        /\ lastError = Null
        /\ rOutcome # Null
        /\ rOutcome.kind = "throw"
        /\ ~InstanceOf(rOutcome.error, "RetryExhaustedError")
        /\ rOutcome.error.name = "TypeError"
        /\ rOutcome.error.name \notin LibraryErrors
\* withRetry was called with a negative number of attempts and has thrown the
\* TypeError without a call of the operation.
C38_Witness ==
    /\ rOptions.attempts < 0
    /\ rPc = "threw"
    /\ fnLog = <<>>
    /\ rOutcome = Threw([name |-> "TypeError", origin |-> "RetryExhaustedError"])

\* Values of Math.random() from one end of [0, 1) to the other.
JitterChoices == RandomChoices \cup {<<1, 10>>, <<1, 4>>, <<3, 4>>, <<99, 100>>}
\* The policy delay of a failed attempt k is at the cap: 0.9 * d >= maxDelay.
AtCap(k) == 9 * PolicyOf(k) >= 10 * rOptions.maxDelay

====
